---- MODULE Spec2Model ----
(***************************************************************************)
(* Model of the proof-pipeline subsystem of the Teen Patti ZK frontend     *)
(* (frontend/src/lib/zk): the aggregator job poller (zkVerifyService.js),  *)
(* the three-layer verification orchestrator (verificationService.js), and *)
(* the proof service with its module-level singletons (proofService.js)    *)
(* together with the hashing adapter's shared handle (crypto.js).          *)
(*                                                                         *)
(* JavaScript is single-threaded and cooperative: an async function runs   *)
(* without interruption up to its next await.  Each action below is one    *)
(* such run-to-await segment of the function it is named after.            *)
(***************************************************************************)
EXTENDS Naturals, Integers, Sequences, FiniteSets, TLC

VARIABLES
  \* ---- waitForVerification (zkVerifyService.js) ----
  wpc,        \* position of the running waitForVerification call
  attempts,   \* its local `attempts`
  polls,      \* number of getVerificationStatus requests it has issued
  sleeps,     \* number of setTimeout(POLL_INTERVAL) sleeps it has started
  clock,      \* milliseconds slept since the call started
  trail,      \* the statuses polled so far (the last TrailLen of them)
  wresult,    \* how the call settled
  \* ---- verifyProofComprehensive (verificationService.js) ----
  apiKey,       \* whether KURIER_API_KEY is configured (fixed per build)
  vpc,          \* position of the running verifyProofComprehensive call
  circuitType,  \* its circuitType argument
  options,      \* its destructured options {localVerify, zkVerify, onChain}
  result,       \* its `result` object
  vlog,         \* the collaborator calls it has made, in order
  vfaults,      \* the layers in which a collaborator raised an exception
  localOutcome, \* what verifyLocally returned to it
  \* ---- proofService.js module-level state ----
  Noir,                     \* non-null?
  UltraHonkBackend,         \* non-null?
  Barretenberg,             \* non-null?
  bbApi,                    \* the shared Barretenberg handle, NoHandle = null
  modulesLoaded,
  wasmInitialized,
  initializationPromise,    \* 0 = null, k = the promise of loadModules run k
  crsInterceptorInstalled,
  circuitCache,             \* name -> reference to a CachedCircuit, 0 = absent
  \* ---- the running async functions of proofService.js and their objects ----
  inits,        \* the runs of loadModules' async body, by start order
  calls,        \* the loadCircuit calls, by call id
  circuits,     \* the CachedCircuit object built by each call (if any)
  epoch,        \* number of clearCircuitCache() calls so far
  lastClearClean, \* was nothing in flight at the latest clearCircuitCache()?
  \* ---- crypto.js module-level state ----
  cryptoBbApi,  \* crypto.js `bbApi`
  bbInitPromise, \* 0 = null, j = the promise of getBarretenberg run j
  hinits,       \* the runs of getBarretenberg's async body
  hcalls,       \* the pedersenHash calls
  \* ---- generateProof / verifyProofLocally (proofService.js) ----
  jobs,         \* the running generate*Proof / verifyProofLocally calls
  vkCalls,      \* per CachedCircuit: backend.getVerificationKey invocations
  backendCalls, \* the backend operations called so far, with their options
  \* ---- submitProofToZkVerify (zkVerifyService.js) ----
  submission,   \* the running submitProofToZkVerify call
  \* ---- verifyOnChainWithTransaction (onChainVerifier) ----
  tx,           \* the running verifyOnChainWithTransaction call
  \* ---- checkKurierHealth (zkVerifyService.js) ----
  cachedHealth,     \* module-level cachedHealth, NoHealth = null
  lastHealthCheck,  \* module-level lastHealthCheck (ms)
  dateNow,          \* what Date.now() returns (ms)
  checks,           \* the checkKurierHealth calls, in call order
  \* ---- the caller of waitForVerification ----
  teardown,     \* whether and when the caller's page/session was torn down
  \* ---- gameUtils.js / crypto.js: the synchronous helpers ----
  hand,         \* the `cards` argument of the evaluateHand call
  evaluation,   \* what that call returned
  treeCall,     \* the commitDeck / buildMerkleTree / generateMerkleProof call
  cardCall,     \* the hashCardUID call
  builder,      \* the build*Input call
  \* ---- hooks.js: one mounted proof hook ----
  proofHook,    \* which hook it is, its `state` and its proofRef.current
  hookCalls,    \* its generate / verifyLocally calls, in call order
  \* ---- ZKProvider (the session state) ----
  zk,           \* the provider's state cells and initRef.current
  zkCalls       \* its initialize calls, in call order

waitVars == <<wpc, attempts, polls, sleeps, clock, trail, wresult>>

verifyVars ==
  <<apiKey, vpc, circuitType, options, result, vlog, vfaults, localOutcome>>

moduleVars ==
  <<Noir, UltraHonkBackend, Barretenberg, bbApi, modulesLoaded, wasmInitialized,
    initializationPromise, crsInterceptorInstalled>>

serviceVars == <<moduleVars, circuitCache, inits, calls, circuits, epoch, lastClearClean>>

cryptoVars == <<cryptoBbApi, bbInitPromise, hinits, hcalls>>

proofVars == <<jobs, vkCalls, backendCalls>>

submitVars == <<submission>>

txVars == <<tx>>

healthVars == <<cachedHealth, lastHealthCheck, dateNow, checks>>

teardownVars == <<teardown>>

handVars == <<hand, evaluation>>

merkleVars == <<treeCall>>

cardVars == <<cardCall>>

builderVars == <<builder>>

hookVars == <<proofHook, hookCalls>>

providerVars == <<zk, zkCalls>>

sessionVars == <<hookVars, providerVars>>

extraVars == <<teardownVars, handVars, merkleVars, cardVars, builderVars, sessionVars>>

\* the components that stand alone
laterVars == <<submitVars, txVars, healthVars, extraVars>>

\* the components added to the four above
otherVars == <<proofVars, laterVars>>

notProofVars == <<waitVars, verifyVars, cryptoVars, laterVars>>

\* the four first components and the proof jobs
coreVars == <<waitVars, verifyVars, serviceVars, cryptoVars, proofVars>>

notSubmitVars == <<coreVars, txVars, healthVars, extraVars>>

notTxVars == <<coreVars, submitVars, healthVars, extraVars>>

notHealthVars == <<coreVars, submitVars, txVars, extraVars>>

\* everything but the caller's teardown and the synchronous helpers
standingVars == <<coreVars, submitVars, txVars, healthVars>>

notTeardownVars == <<standingVars, handVars, merkleVars, cardVars, builderVars, sessionVars>>

notHandVars == <<standingVars, teardownVars, merkleVars, cardVars, builderVars, sessionVars>>

notMerkleVars == <<standingVars, teardownVars, handVars, cardVars, builderVars, sessionVars>>

notCardVars == <<standingVars, teardownVars, handVars, merkleVars, builderVars, sessionVars>>

notBuilderVars == <<standingVars, teardownVars, handVars, merkleVars, cardVars, sessionVars>>

helperVars == <<teardownVars, handVars, merkleVars, cardVars, builderVars>>

notHookVars == <<standingVars, helperVars, providerVars>>

\* what the provider's steps leave alone, the proof service apart
notProviderVars ==
  <<waitVars, verifyVars, cryptoVars, proofVars, submitVars, txVars, healthVars,
    helperVars, hookVars>>

vars == <<waitVars, verifyVars, serviceVars, cryptoVars, otherVars>>

\* what each component's steps leave alone
notWaitVars == <<verifyVars, serviceVars, cryptoVars, otherVars>>

notVerifyVars == <<waitVars, serviceVars, cryptoVars, otherVars>>

notServiceVars == <<waitVars, verifyVars, otherVars>>

(***************************************************************************)
(* zkVerifyService.js: aggregator job polling                              *)
(***************************************************************************)

POLL_INTERVAL == 5000

MAX_POLL_ATTEMPTS == 60

\* How many of the most recent polled statuses the model remembers.
TrailLen == 3

\* KurierJobStatus (the typedef), plus one status the typedef does not list.
KurierJobStatus ==
  {"Queued", "Valid", "Submitted", "IncludedInBlock", "Finalized",
   "AggregationPending", "Aggregated", "AggregationPublished", "Failed"}

PolledStatuses == KurierJobStatus \cup {"Unrecognised"}

\* mutant: 'Aggregated' left out of the success list
isSuccessStatus_dropsAggregated(status) ==
  status \in {"Finalized", "AggregationPublished"}

\* mutant: 'Valid' taken for a success terminal
isSuccessStatus_acceptsValid(status) ==
  status \in {"Finalized", "Aggregated", "AggregationPublished", "Valid"}

\* mutant: the 'Failed' branch never taken
isFailedStatus_never(status) == FALSE

\* mutant: off-by-one loop condition
loopContinues_offByOne(a) == a <= MAX_POLL_ATTEMPTS

isTerminalStatus(status) ==
  status \in {"Finalized", "Aggregated", "AggregationPublished", "Failed"}

isSuccessStatus(status) ==
  status \in {"Finalized", "Aggregated", "AggregationPublished"}

\* `status.status === 'Failed'`
isFailedStatus(status) == status = "Failed"

\* the loop condition `attempts < MAX_POLL_ATTEMPTS`
loopContinues(a) == a < MAX_POLL_ATTEMPTS

NoWaitResult == [kind |-> "none", status |-> "none", error |-> "none"]

Remember(t, s) ==
  IF Len(t) < TrailLen THEN Append(t, s) ELSE Append(Tail(t), s)

\* waitForVerification(jobId) is called: attempts = 0, the loop is entered
\* (0 < MAX_POLL_ATTEMPTS) and the first status request is issued.
waitForVerification ==
  /\ UNCHANGED notWaitVars
  /\ wpc = "idle"
  /\ attempts' = 0
  /\ IF loopContinues(0)
       THEN /\ wpc' = "getVerificationStatus"
            /\ polls' = 1
            /\ wresult' = NoWaitResult
       ELSE /\ wpc' = "threw"
            /\ polls' = 0
            /\ wresult' = [NoWaitResult EXCEPT !.kind = "error", !.error = "timeout"]
  /\ sleeps' = 0
  /\ clock' = 0
  /\ trail' = <<>>

\* `await getVerificationStatus(jobId)` resolves with a status record:
\* success status -> return it; Failed -> throw; otherwise start the sleep.
pollResolves(status) ==
  /\ UNCHANGED notWaitVars
  /\ wpc = "getVerificationStatus"
  /\ trail' = Remember(trail, status)
  /\ IF isSuccessStatus(status)
       THEN /\ wpc' = "returned"
            /\ wresult' = [kind |-> "status", status |-> status, error |-> "none"]
            /\ UNCHANGED sleeps
       ELSE IF isFailedStatus(status)
         THEN /\ wpc' = "threw"
              /\ wresult' = [kind |-> "error", status |-> status, error |-> "failed"]
              /\ UNCHANGED sleeps
         ELSE /\ wpc' = "sleep"
              /\ sleeps' = sleeps + 1
              /\ UNCHANGED wresult
  /\ UNCHANGED <<attempts, polls, clock>>

\* mutant: the loop catches a failed status request and goes on to the sleep
rejectionPropagates_swallowed == FALSE

\* getVerificationStatus rethrows from its catch, and the loop of
\* waitForVerification has no try around the await
rejectionPropagates == TRUE

\* `await getVerificationStatus(jobId)` rejects (network error, non-OK
\* response, missing key): the error leaves waitForVerification uncaught.
pollRejects ==
  /\ UNCHANGED notWaitVars
  /\ wpc = "getVerificationStatus"
  /\ IF rejectionPropagates
       THEN /\ wpc' = "threw"
            /\ wresult' = [kind |-> "error", status |-> "none", error |-> "request"]
            /\ UNCHANGED sleeps
       ELSE /\ wpc' = "sleep"
            /\ sleeps' = sleeps + 1
            /\ wresult' = [wresult EXCEPT !.error = "request"]
  /\ UNCHANGED <<attempts, polls, clock, trail>>

\* the POLL_INTERVAL timer fires: attempts++, then the loop condition.
sleepDone ==
  /\ UNCHANGED notWaitVars
  /\ wpc = "sleep"
  /\ attempts' = attempts + 1
  /\ clock' = clock + POLL_INTERVAL
  /\ IF loopContinues(attempts + 1)
       THEN /\ wpc' = "getVerificationStatus"
            /\ polls' = polls + 1
            /\ UNCHANGED wresult
       ELSE /\ wpc' = "threw"
            /\ wresult' = [kind |-> "error", status |-> "none", error |-> "timeout"]
            /\ UNCHANGED polls
  /\ UNCHANGED <<sleeps, trail>>

\* the caller has its answer; a later call starts from scratch.
waitSettled ==
  /\ UNCHANGED notWaitVars
  /\ wpc \in {"returned", "threw"}
  /\ wpc' = "idle"
  /\ attempts' = 0
  /\ polls' = 0
  /\ sleeps' = 0
  /\ clock' = 0
  /\ trail' = <<>>
  /\ wresult' = NoWaitResult

InitWait ==
  /\ wpc = "idle"
  /\ attempts = 0
  /\ polls = 0
  /\ sleeps = 0
  /\ clock = 0
  /\ trail = <<>>
  /\ wresult = NoWaitResult

NextWait ==
  \/ waitForVerification
  \/ \E status \in PolledStatuses : pollResolves(status)
  \/ pollRejects
  \/ sleepDone
  \/ waitSettled

(***************************************************************************)
(* Claims about waitForVerification                                        *)
(***************************************************************************)

SuccessTerminals == {"Finalized", "Aggregated", "AggregationPublished"}

Terminals == SuccessTerminals \cup {"Failed"}

LastPolled == trail[Len(trail)]

WaitSettledPcs == {"returned", "threw"}

\* C4: waitForVerification returns the polled record at the first poll that
\* reports Finalized, Aggregated or AggregationPublished and polls no more:
\* whenever the latest polled status is a success terminal the call has
\* returned exactly that status, no earlier poll was a success, and one
\* request was issued per polled status; Queued, Submitted, Finalized
\* resolves with Finalized after three requests.
C4_ReturnsAtFirstSuccess ==
  /\ (trail # <<>> /\ LastPolled \in SuccessTerminals) =>
        /\ wpc = "returned"
        /\ wresult = [kind |-> "status", status |-> LastPolled, error |-> "none"]
        /\ polls = attempts + 1
        /\ \A i \in 1..(Len(trail) - 1) : trail[i] \notin SuccessTerminals
  /\ wpc = "returned" =>
        /\ trail # <<>>
        /\ LastPolled \in SuccessTerminals
        /\ wresult.status = LastPolled
  /\ (polls = 3 /\ trail = <<"Queued", "Submitted", "Finalized">>) =>
        /\ wpc = "returned"
        /\ wresult.status = "Finalized"

C4_Witness ==
  /\ trail = <<"Queued", "Submitted", "Finalized">>
  /\ wpc = "returned"
  /\ polls = 3

\* C5: when a poll reports Failed the wait throws the verification-failed
\* error at that poll: no sleep is started after it and no further request
\* is issued (requests = completed sleeps + 1 < the cap is allowed).
C5_FailedThrowsAtOnce ==
  /\ (trail # <<>> /\ LastPolled = "Failed") =>
        /\ wpc = "threw"
        /\ wresult = [kind |-> "error", status |-> "Failed", error |-> "failed"]
        /\ sleeps = attempts
        /\ polls = attempts + 1
  /\ wresult.error = "failed" => (trail # <<>> /\ LastPolled = "Failed")

C5_Witness ==
  /\ wpc = "threw"
  /\ wresult.error = "failed"
  /\ polls = 2
  /\ attempts = 1

\* C6 (state part): never more than 60 status requests; the timeout error is
\* thrown exactly after 60 requests and 60 sleeps of 5 s each, none of whose
\* statuses was terminal; poll k is issued at (k-1) * 5 s.
C6_CapState ==
  /\ polls <= 60
  /\ attempts <= 60
  /\ wpc \in {"getVerificationStatus", "sleep"} => clock = (polls - 1) * 5000
  /\ wresult.error = "timeout" =>
        /\ wpc = "threw"
        /\ polls = 60
        /\ sleeps = 60
        /\ clock = 60 * 5000
        /\ \A i \in 1..Len(trail) : trail[i] \notin Terminals
  /\ (attempts = 60) => (wpc = "threw" /\ wresult.error = "timeout")

\* C6: if every poll reports a non-terminal status, waitForVerification issues
\* exactly 60 status requests, never a 61st, then throws the timeout error;
\* and a running wait always settles, given that timers fire and requests
\* settle.
C6_SixtyPollsThenTimeout ==
  /\ []C6_CapState
  /\ ((wpc \notin {"idle"} \cup WaitSettledPcs) ~> (wpc \in WaitSettledPcs))

C6_Witness ==
  /\ wpc = "threw"
  /\ wresult.error = "timeout"
  /\ polls = 60

\* C7: waitForVerification settles on a polled status only if that status is
\* Finalized, Aggregated, AggregationPublished or Failed; after any other
\* status (Queued, Submitted, IncludedInBlock, AggregationPending, Valid,
\* unrecognised) it sleeps and polls again, until the attempt cap.
C7_SettlesOnlyOnTerminal ==
  /\ wresult.kind = "status" => wresult.status \in SuccessTerminals
  /\ wresult.error = "failed" => wresult.status = "Failed"
  /\ (trail # <<>> /\ LastPolled \notin Terminals) =>
        \/ wpc = "sleep"
        \/ wpc = "getVerificationStatus" /\ wresult.kind = "none"
        \/ wpc = "threw" /\ wresult.error = "request"
        \/ wpc = "threw" /\ wresult.error = "timeout" /\ attempts = 60

C7_Witness ==
  /\ trail = <<"Valid", "AggregationPending", "Unrecognised">>
  /\ wpc = "sleep"
  /\ polls = 3

(***************************************************************************)
(* verificationService.js: the three-layer pipeline                        *)
(***************************************************************************)

CircuitTypes == {"shuffle", "deal", "show"}

\* VerificationOptions after the destructuring defaults have been applied.
VerificationOptions == [localVerify : BOOLEAN, zkVerify : BOOLEAN, onChain : BOOLEAN]

DefaultOptions == [localVerify |-> TRUE, zkVerify |-> FALSE, onChain |-> FALSE]

\* the options verifyFull passes
FullOptions == [localVerify |-> TRUE, zkVerify |-> TRUE, onChain |-> TRUE]

NoLocal == [present |-> FALSE, verified |-> FALSE, error |-> "none"]

NoZkVerify ==
  [present |-> FALSE, submitted |-> FALSE, jobId |-> FALSE, status |-> "none",
   error |-> "none"]

NoOnChain == [present |-> FALSE, verified |-> FALSE, error |-> "none"]

EmptyResult == [local |-> NoLocal, zkVerify |-> NoZkVerify, onChain |-> NoOnChain]

\* What proofService.verifyShuffleProof / verifyDealProof / verifyShowProof
\* hand back: {valid: true}, {valid: false}, {valid: false, error}.
ProofServiceVerdicts == {"valid", "invalid", "error"}

\* verifyLocally(circuitType, proof): the switch with its default branch and
\* the try/catch around the proof service call.
verifyLocally(ct, inner) ==
  IF ct \notin CircuitTypes
    THEN [valid |-> FALSE, error |-> "Unknown circuit"]
    ELSE CASE inner = "valid" -> [valid |-> TRUE, error |-> "none"]
           [] inner = "invalid" -> [valid |-> FALSE, error |-> "none"]
           [] inner = "error" -> [valid |-> FALSE, error |-> "verifier error"]
           [] OTHER -> [valid |-> FALSE, error |-> "Local verification error"]

\* checkKurierHealth().status: 'down' without a key; with a key 'healthy' for
\* an OK response, 'degraded' for a non-OK one, 'healthy' when the request
\* itself fails.
StatusResponses == {"ok", "notOk", "rejected"}

\* mutant: a status request that fails marks the aggregator as down
checkKurierHealth_downOnFailure(key, resp) ==
  IF ~key \/ resp = "rejected" THEN "down"
  ELSE IF resp = "ok" THEN "healthy" ELSE "degraded"

checkKurierHealth(key, resp) ==
  IF ~key THEN "down"
  ELSE IF resp = "ok" THEN "healthy"
  ELSE IF resp = "notOk" THEN "degraded"
  ELSE "healthy"

\* mutant: no `if (!KURIER_API_KEY) return false;`, the aggregator counts as
\* available whatever the build
isKurierAvailable_always(key, resp) == TRUE

isKurierAvailable(key, resp) ==
  IF ~key THEN FALSE ELSE checkKurierHealth(key, resp) # "down"

\* submitProofToZkVerify: resolves with {jobId, optimisticVerify?} or throws
\* (missing verification key, non-OK response, network error).
SubmitOutcomes == {"accepted", "optimisticSuccess", "optimisticFailed", "throws"}

\* `submitResult.optimisticVerify || 'Queued'`
submittedStatus(out) ==
  CASE out = "optimisticSuccess" -> "success"
    [] out = "optimisticFailed" -> "failed"
    [] OTHER -> "Queued"

\* client.readContract: a boolean, or a rejection.
ReadOutcomes == {"true", "false", "throws"}

\* verifyOnChain(circuitType, proof): no deployed address -> error record;
\* otherwise the read result, a rejection being caught into an error record.
verifyOnChain(ct, deployed, read) ==
  IF ct \notin CircuitTypes \/ ~deployed
    THEN [threw |-> FALSE, verified |-> FALSE, error |-> "No verifier address deployed"]
    ELSE CASE read = "true" -> [threw |-> FALSE, verified |-> TRUE, error |-> "none"]
           [] read = "false" -> [threw |-> FALSE, verified |-> FALSE, error |-> "none"]
           [] OTHER -> [threw |-> FALSE, verified |-> FALSE, error |-> "read failed"]

CollaboratorCalls ==
  {"verifyLocally", "isKurierAvailable", "submitProofToZkVerify", "verifyOnChain"}

\* mutant: the on-chain layer is skipped
enterOnChain_never(o) == "returned"

\* mutant: the on-chain layer runs in place of the aggregator layer
enterZkVerify_onChainFirst(o) == IF o.onChain THEN "verifyOnChain" ELSE "returned"

\* mutant: the local layer runs whatever the options say
enterLocal_always(o) == "verifyLocally"

\* Layer 3 entry: `if (onChain)`.
enterOnChain(o) == IF o.onChain THEN "verifyOnChain" ELSE "returned"

\* Layer 2 entry: `if (zkVerify)`.
enterZkVerify(o) == IF o.zkVerify THEN "isKurierAvailable" ELSE enterOnChain(o)

\* Layer 1 entry: `if (localVerify)`.
enterLocal(o) == IF o.localVerify THEN "verifyLocally" ELSE enterZkVerify(o)

Logged(log, pc) == IF pc \in CollaboratorCalls THEN Append(log, pc) ELSE log

\* mutant: the early return after a failed local verification is missing
localShortCircuits_never(localResult) == FALSE

\* `if (!localResult.valid) return result;`
localShortCircuits(localResult) == ~localResult.valid

\* mutant: no try/catch around the aggregator layer
zkVerifyCatch_rethrows(r, o) == [vpc |-> "threw", result |-> r]

\* the catch of the aggregator layer: record {submitted: false, error}, go on
zkVerifyCatch(r, o) ==
  [vpc |-> enterOnChain(o),
   result |-> [r EXCEPT !.zkVerify =
                 [present |-> TRUE, submitted |-> FALSE, jobId |-> FALSE,
                  status |-> "none", error |-> "zkVerify submission failed"]]]

\* the catch of the on-chain layer: record {verified: false, error}
onChainCatch(r) ==
  [r EXCEPT !.onChain =
     [present |-> TRUE, verified |-> FALSE, error |-> "On-chain verification failed"]]

\* verifyProofComprehensive(circuitType, proof, options) is called and runs
\* to its first await.
verifyProofComprehensive(ct, o) ==
  /\ UNCHANGED notVerifyVars
  /\ vpc = "idle"
  /\ circuitType' = ct
  /\ options' = o
  /\ result' = EmptyResult
  /\ vpc' = enterLocal(o)
  /\ vlog' = Logged(<<>>, enterLocal(o))
  /\ vfaults' = {}
  /\ localOutcome' = [valid |-> FALSE, error |-> "none"]
  /\ UNCHANGED apiKey

\* verifyFull(circuitType, proof)
verifyFull(ct) == verifyProofComprehensive(ct, FullOptions)

\* `await verifyLocally(...)` resolves.
localSettles(inner) ==
  /\ UNCHANGED notVerifyVars
  /\ vpc = "verifyLocally"
  /\ LET localResult == verifyLocally(circuitType, inner)
         next == IF localShortCircuits(localResult)
                   THEN "returned" ELSE enterZkVerify(options)
     IN  /\ localOutcome' = localResult
         /\ result' = [result EXCEPT !.local =
                         [present |-> TRUE, verified |-> localResult.valid,
                          error |-> localResult.error]]
         /\ vpc' = next
         /\ vlog' = Logged(vlog, next)
  /\ UNCHANGED <<apiKey, circuitType, options, vfaults>>

\* `await isKurierAvailable()` resolves.
availabilitySettles(resp) ==
  /\ UNCHANGED notVerifyVars
  /\ vpc = "isKurierAvailable"
  /\ IF isKurierAvailable(apiKey, resp)
       THEN /\ vpc' = "submitProofToZkVerify"
            /\ vlog' = Logged(vlog, "submitProofToZkVerify")
            /\ UNCHANGED result
       ELSE /\ result' = [result EXCEPT !.zkVerify =
                            [present |-> TRUE, submitted |-> FALSE, jobId |-> FALSE,
                             status |-> "none",
                             error |-> "zkVerify not configured or unavailable"]]
            /\ vpc' = enterOnChain(options)
            /\ vlog' = Logged(vlog, enterOnChain(options))
  /\ UNCHANGED <<apiKey, circuitType, options, vfaults, localOutcome>>

\* `await submitProofToZkVerify(...)` settles.
submitSettles(out) ==
  /\ UNCHANGED notVerifyVars
  /\ vpc = "submitProofToZkVerify"
  /\ IF out = "throws"
       THEN /\ vpc' = zkVerifyCatch(result, options).vpc
            /\ result' = zkVerifyCatch(result, options).result
            /\ vlog' = Logged(vlog, zkVerifyCatch(result, options).vpc)
            /\ vfaults' = vfaults \cup {"zkVerify"}
       ELSE /\ result' = [result EXCEPT !.zkVerify =
                            [present |-> TRUE, submitted |-> TRUE, jobId |-> TRUE,
                             status |-> submittedStatus(out), error |-> "none"]]
            /\ vpc' = enterOnChain(options)
            /\ vlog' = Logged(vlog, enterOnChain(options))
            /\ UNCHANGED vfaults
  /\ UNCHANGED <<apiKey, circuitType, options, localOutcome>>

\* `await verifyOnChain(...)` settles.
onChainSettles(deployed, read) ==
  /\ UNCHANGED notVerifyVars
  /\ vpc = "verifyOnChain"
  /\ LET onChainResult == verifyOnChain(circuitType, deployed, read)
     IN  result' = IF onChainResult.threw
                     THEN onChainCatch(result)
                     ELSE [result EXCEPT !.onChain =
                             [present |-> TRUE, verified |-> onChainResult.verified,
                              error |-> onChainResult.error]]
  /\ vfaults' = IF circuitType \in CircuitTypes /\ deployed /\ read = "throws"
                  THEN vfaults \cup {"onChain"} ELSE vfaults
  /\ vpc' = "returned"
  /\ UNCHANGED <<apiKey, circuitType, options, vlog, localOutcome>>

\* the caller has the result (or the exception); a later call starts afresh.
comprehensiveSettled ==
  /\ UNCHANGED notVerifyVars
  /\ vpc \in {"returned", "threw"}
  /\ vpc' = "idle"
  /\ circuitType' = "shuffle"
  /\ options' = DefaultOptions
  /\ result' = EmptyResult
  /\ vlog' = <<>>
  /\ vfaults' = {}
  /\ localOutcome' = [valid |-> FALSE, error |-> "none"]
  /\ UNCHANGED apiKey

InitVerify ==
  /\ apiKey \in BOOLEAN
  /\ vpc = "idle"
  /\ circuitType = "shuffle"
  /\ options = DefaultOptions
  /\ result = EmptyResult
  /\ vlog = <<>>
  /\ vfaults = {}
  /\ localOutcome = [valid |-> FALSE, error |-> "none"]

NextVerify ==
  \/ \E ct \in CircuitTypes \cup {"unknown"}, o \in VerificationOptions :
       verifyProofComprehensive(ct, o)
  \/ \E ct \in CircuitTypes \cup {"unknown"} : verifyFull(ct)
  \/ \E inner \in ProofServiceVerdicts : localSettles(inner)
  \/ \E resp \in StatusResponses : availabilitySettles(resp)
  \/ \E out \in SubmitOutcomes : submitSettles(out)
  \/ \E deployed \in BOOLEAN, read \in ReadOutcomes : onChainSettles(deployed, read)
  \/ comprehensiveSettled

(***************************************************************************)
(* Claims about verifyProofComprehensive                                   *)
(***************************************************************************)

\* C2: with all three layers enabled (verifyFull), a local verification that
\* yields valid = false, by verdict or by error, ends the call at once: the
\* only collaborator ever called is verifyLocally (no availability check, no
\* submission, no on-chain call) and the result holds the local record alone.
C2_LocalFailureSkipsOtherLayers ==
  (options = FullOptions /\ result.local.present /\ ~result.local.verified) =>
    /\ vpc = "returned"
    /\ vlog = <<"verifyLocally">>
    /\ result.zkVerify = NoZkVerify
    /\ result.onChain = NoOnChain

C2_Witness ==
  /\ options = FullOptions
  /\ vpc = "returned"
  /\ result.local.present
  /\ ~result.local.verified
  /\ result.local.error = "verifier error"

\* C3: verifyProofComprehensive never throws.  An exception raised while the
\* aggregator layer runs leaves the record {submitted: false, error}, and the
\* on-chain layer, when enabled, is still called and reported; an exception
\* in the on-chain read leaves {verified: false, error}; and the local record
\* written first is still in the result afterwards.
C3_LayerExceptionsAreRecorded ==
  /\ vpc # "threw"
  /\ "zkVerify" \in vfaults =>
        /\ result.zkVerify.present
        /\ ~result.zkVerify.submitted
        /\ result.zkVerify.error # "none"
        /\ options.onChain =>
              /\ vlog[Len(vlog)] = "verifyOnChain"
              /\ vpc = "verifyOnChain" \/ (vpc = "returned" /\ result.onChain.present)
  /\ "onChain" \in vfaults =>
        /\ vpc = "returned"
        /\ result.onChain.present
        /\ ~result.onChain.verified
        /\ result.onChain.error # "none"
  /\ (options.localVerify /\ vpc \notin {"idle", "verifyLocally"}) =>
        result.local =
          [present |-> TRUE, verified |-> localOutcome.valid, error |-> localOutcome.error]
  /\ (vpc = "returned" /\ options.onChain
        /\ (options.localVerify => result.local.verified)) => result.onChain.present

C3_Witness ==
  /\ vpc = "returned"
  /\ vfaults = {"zkVerify", "onChain"}
  /\ result.local.present /\ result.local.verified
  /\ result.zkVerify.present /\ ~result.zkVerify.submitted
  /\ result.onChain.present /\ ~result.onChain.verified

(***************************************************************************)
(* proofService.js: module loading, the circuit cache, clearCircuitCache   *)
(***************************************************************************)

\* Bounds of the model: how many loadCircuit calls, loadModules runs and
\* clearCircuitCache calls a behaviour holds.
MaxCalls == 2

MaxInits == 2

MaxClears == 1

CallIds == 1..MaxCalls

InitIds == 1..MaxInits

\* the keys of CIRCUIT_ARTIFACTS
CircuitNames == {"shuffle", "deal", "show"}

\* A Barretenberg instance is identified by the run that created it.
NoHandle == [by |-> "none", task |-> 0]

moduleHandle(k) == [by |-> "loadModules", task |-> k]

cryptoHandle(j) == [by |-> "getBarretenberg", task |-> j]

NoInit == [pc |-> "none", epoch |-> 0, wasmRun |-> FALSE]

NoCall ==
  [pc |-> "idle", name |-> "none", waitOn |-> 0, epoch |-> 0, clean |-> FALSE,
   fetched |-> FALSE, constructed |-> FALSE, handle |-> NoHandle, ret |-> 0,
   concurrent |-> {}, error |-> "none"]

\* CachedCircuit {compiled, noir, backend, vk}: the backend's handle and
\* whether a precomputed key was fetched.
NoCircuit == [exists |-> FALSE, handle |-> NoHandle, vk |-> "none"]

CallInFlight(c) == calls[c].pc \in {"loadModules", "fetchCircuit", "fetchVk"}

InitInFlight(k) == inits[k].pc \in {"initializeWasm", "import", "Barretenberg_new"}

InitSettled(k) == inits[k].pc \in {"fulfilled", "rejected"}

\* isZKReady()
isZKReady == modulesLoaded /\ wasmInitialized

\* the next unused run of loadModules' async body (runs are numbered in
\* start order), 0 when the model's bound is reached
NextInit ==
  IF \E k \in InitIds : inits[k].pc = "none"
    THEN CHOOSE k \in InitIds :
           /\ inits[k].pc = "none"
           /\ \A j \in InitIds : j < k => inits[j].pc # "none"
    ELSE 0

\* loadModules(), synchronous part, as called from loadCircuit:
\*   if (initializationPromise) return initializationPromise;
\*   if (modulesLoaded) return;
\*   initializationPromise = (async () => { installCrsInterceptor();
\*                                          await initializeWasm(); ...
\* The result names what the caller awaits (0: nothing pending).
loadModulesJoins == initializationPromise # 0

loadModulesReturnsAtOnce == initializationPromise = 0 /\ modulesLoaded

loadModulesStarts == initializationPromise = 0 /\ ~modulesLoaded

\* loadCircuit(artifact) is called: runs to `await loadModules()`.
loadCircuitCalled(c, name) ==
  /\ calls[c].pc = "idle"
  /\ \A d \in CallIds : d < c => calls[d].pc # "idle"
  /\ LET started ==
           [NoCall EXCEPT !.pc = "loadModules", !.name = name, !.epoch = epoch,
                          !.clean = (epoch > 0 /\ lastClearClean),
                          !.concurrent = {d \in CallIds : CallInFlight(d)
                                                          /\ calls[d].name = name}]
     IN  \/ /\ loadModulesJoins
            /\ calls' = [calls EXCEPT ![c] =
                           [started EXCEPT !.waitOn = initializationPromise]]
            /\ UNCHANGED <<inits, initializationPromise, crsInterceptorInstalled>>
         \/ /\ loadModulesReturnsAtOnce
            /\ calls' = [calls EXCEPT ![c] = started]
            /\ UNCHANGED <<inits, initializationPromise, crsInterceptorInstalled>>
         \/ /\ loadModulesStarts
            /\ NextInit # 0
            /\ calls' = [calls EXCEPT ![c] = [started EXCEPT !.waitOn = NextInit]]
            /\ inits' = [inits EXCEPT ![NextInit] =
                           [pc |-> "initializeWasm", epoch |-> epoch,
                            wasmRun |-> ~wasmInitialized]]
            /\ initializationPromise' = NextInit
            /\ crsInterceptorInstalled' = TRUE
  /\ UNCHANGED <<Noir, UltraHonkBackend, Barretenberg, bbApi, modulesLoaded,
                 wasmInitialized, circuitCache, circuits, epoch, lastClearClean>>

\* a direct call of loadCircuit (preloadCircuits)
loadCircuit(c, name) ==
  /\ UNCHANGED notServiceVars
  /\ UNCHANGED cryptoVars
  /\ loadCircuitCalled(c, name)

\* mutant: the catch leaves the rejected promise in place
promiseAfterFailure_kept == initializationPromise

\* the catch of loadModules' async body: `initializationPromise = null`
promiseAfterFailure == 0

\* the catch of loadModules' async body: initializationPromise = null; throw
initFails(k) ==
  /\ inits' = [inits EXCEPT ![k].pc = "rejected"]
  /\ initializationPromise' = promiseAfterFailure
  /\ UNCHANGED <<Noir, UltraHonkBackend, Barretenberg, bbApi, modulesLoaded,
                 wasmInitialized, cryptoBbApi>>

\* `await initializeWasm()` settles in run k of loadModules.
initializeWasmSettles(k, ok) ==
  /\ UNCHANGED notServiceVars
  /\ inits[k].pc = "initializeWasm"
  /\ IF ~inits[k].wasmRun
       THEN \* initializeWasm returned at `if (wasmInitialized) return`
            /\ ok
            /\ inits' = [inits EXCEPT ![k].pc = "import"]
            /\ UNCHANGED <<moduleVars, cryptoBbApi>>
       ELSE IF ok
         THEN /\ wasmInitialized' = TRUE
              /\ inits' = [inits EXCEPT ![k].pc = "import"]
              /\ UNCHANGED <<Noir, UltraHonkBackend, Barretenberg, bbApi,
                             modulesLoaded, initializationPromise, cryptoBbApi>>
         ELSE initFails(k)
  /\ UNCHANGED <<crsInterceptorInstalled, circuitCache, calls, circuits, epoch,
                 lastClearClean, bbInitPromise, hinits, hcalls>>

\* the dynamic imports of noir_js and bb.js settle in run k; on success the
\* three classes are stored and Barretenberg.new() is started.
importSettles(k, ok) ==
  /\ UNCHANGED notServiceVars
  /\ inits[k].pc = "import"
  /\ IF ok
       THEN /\ Noir' = TRUE
            /\ UltraHonkBackend' = TRUE
            /\ Barretenberg' = TRUE
            /\ inits' = [inits EXCEPT ![k].pc = "Barretenberg_new"]
            /\ UNCHANGED <<bbApi, modulesLoaded, wasmInitialized,
                           initializationPromise, cryptoBbApi>>
       ELSE initFails(k)
  /\ UNCHANGED <<crsInterceptorInstalled, circuitCache, calls, circuits, epoch,
                 lastClearClean, bbInitPromise, hinits, hcalls>>

\* `bbApi = await Barretenberg.new()` settles in run k; on success
\* setBarretenberg(bbApi) and modulesLoaded = true.
barretenbergNewSettles(k, ok) ==
  /\ UNCHANGED notServiceVars
  /\ inits[k].pc = "Barretenberg_new"
  /\ IF ok
       THEN /\ bbApi' = moduleHandle(k)
            /\ cryptoBbApi' = moduleHandle(k)
            /\ modulesLoaded' = TRUE
            /\ inits' = [inits EXCEPT ![k].pc = "fulfilled"]
            /\ UNCHANGED <<Noir, UltraHonkBackend, Barretenberg, wasmInitialized,
                           initializationPromise>>
       ELSE initFails(k)
  /\ UNCHANGED <<crsInterceptorInstalled, circuitCache, calls, circuits, epoch,
                 lastClearClean, bbInitPromise, hinits, hcalls>>

\* loadCircuit resumes after `await loadModules()`: rethrow a rejection,
\* check Noir/UltraHonkBackend, consult the cache, else start the fetch.
modulesAwaited(c) ==
  /\ UNCHANGED notServiceVars
  /\ UNCHANGED cryptoVars
  /\ calls[c].pc = "loadModules"
  /\ IF calls[c].waitOn = 0 THEN TRUE ELSE InitSettled(calls[c].waitOn)
  \* reactions on one promise run in the order they were registered
  /\ \A d \in CallIds :
        d < c => ~(calls[d].pc = "loadModules" /\ calls[d].waitOn = calls[c].waitOn)
  /\ calls' = [calls EXCEPT ![c] =
       IF calls[c].waitOn # 0 /\ inits[calls[c].waitOn].pc = "rejected"
         THEN [@ EXCEPT !.pc = "threw", !.error = "module load failed"]
       ELSE IF ~Noir \/ ~UltraHonkBackend
         THEN [@ EXCEPT !.pc = "threw", !.error = "Modules not loaded"]
       ELSE IF circuitCache[calls[c].name] # 0
         THEN [@ EXCEPT !.pc = "returned", !.ret = circuitCache[calls[c].name]]
       ELSE [@ EXCEPT !.pc = "fetchCircuit", !.fetched = TRUE]]
  /\ UNCHANGED <<moduleVars, circuitCache, inits, circuits, epoch, lastClearClean>>

\* `await fetch(artifact.circuitPath)` / response.json() settle: on success
\* new Noir(compiled), new UltraHonkBackend(compiled.bytecode, bbApi), and the
\* fetch of the precomputed key is started.
circuitFetched(c, ok) ==
  /\ UNCHANGED notServiceVars
  /\ UNCHANGED cryptoVars
  /\ calls[c].pc = "fetchCircuit"
  /\ calls' = [calls EXCEPT ![c] =
       IF ~ok
         THEN [@ EXCEPT !.pc = "threw", !.error = "Failed to load circuit"]
       ELSE IF ~Noir \/ ~UltraHonkBackend
         THEN [@ EXCEPT !.pc = "threw", !.error = "not a constructor"]
       ELSE [@ EXCEPT !.pc = "fetchVk", !.constructed = TRUE, !.handle = bbApi]]
  /\ UNCHANGED <<moduleVars, circuitCache, inits, circuits, epoch, lastClearClean>>

\* the precomputed-key fetch settles (a missing key is not an error):
\* circuitCache.set(artifact.name, circuitData); return circuitData.
vkFetched(c, found) ==
  /\ UNCHANGED notServiceVars
  /\ UNCHANGED cryptoVars
  /\ calls[c].pc = "fetchVk"
  /\ circuits' = [circuits EXCEPT ![c] =
                    [exists |-> TRUE, handle |-> calls[c].handle,
                     vk |-> IF found THEN "precomputed" ELSE "none"]]
  /\ circuitCache' = [circuitCache EXCEPT ![calls[c].name] = c]
  /\ calls' = [calls EXCEPT ![c] = [@ EXCEPT !.pc = "returned", !.ret = c]]
  /\ UNCHANGED <<moduleVars, inits, epoch, lastClearClean>>

\* mutant: the cache is not emptied by clearCircuitCache
clearedCache_keeps == circuitCache

\* circuitCache.clear()
clearedCache == [n \in CircuitNames |-> 0]

\* clearCircuitCache(): synchronous, may run between any two segments above.
clearCircuitCacheBody ==
  /\ epoch < MaxClears
  /\ circuitCache' = clearedCache
  /\ modulesLoaded' = FALSE
  /\ wasmInitialized' = FALSE
  /\ initializationPromise' = 0
  /\ crsInterceptorInstalled' = FALSE
  /\ Noir' = FALSE
  /\ UltraHonkBackend' = FALSE
  /\ Barretenberg' = FALSE
  /\ bbApi' = NoHandle
  /\ epoch' = epoch + 1
  /\ lastClearClean' = /\ \A c \in CallIds : ~CallInFlight(c)
                       /\ \A k \in InitIds : ~InitInFlight(k)
  /\ UNCHANGED <<inits, calls, circuits>>

\* a direct call of clearCircuitCache
clearCircuitCache ==
  /\ UNCHANGED notServiceVars
  /\ UNCHANGED cryptoVars
  /\ clearCircuitCacheBody

InitService ==
  /\ Noir = FALSE
  /\ UltraHonkBackend = FALSE
  /\ Barretenberg = FALSE
  /\ bbApi = NoHandle
  /\ modulesLoaded = FALSE
  /\ wasmInitialized = FALSE
  /\ initializationPromise = 0
  /\ crsInterceptorInstalled = FALSE
  /\ circuitCache = [n \in CircuitNames |-> 0]
  /\ inits = [k \in InitIds |-> NoInit]
  /\ calls = [c \in CallIds |-> NoCall]
  /\ circuits = [c \in CallIds |-> NoCircuit]
  /\ epoch = 0
  /\ lastClearClean = FALSE

NextService ==
  \/ \E c \in CallIds, name \in CircuitNames : loadCircuit(c, name)
  \/ \E k \in InitIds, ok \in BOOLEAN : initializeWasmSettles(k, ok)
  \/ \E k \in InitIds, ok \in BOOLEAN : importSettles(k, ok)
  \/ \E k \in InitIds, ok \in BOOLEAN : barretenbergNewSettles(k, ok)
  \/ \E c \in CallIds : modulesAwaited(c)
  \/ \E c \in CallIds, ok \in BOOLEAN : circuitFetched(c, ok)
  \/ \E c \in CallIds, found \in BOOLEAN : vkFetched(c, found)
  \/ clearCircuitCache

(***************************************************************************)
(* crypto.js: the hashing adapter's Barretenberg singleton                 *)
(***************************************************************************)

\* how many pedersenHash calls run at the same time
MaxHashes == 1

MaxHashInits == 1

HashIds == 1..MaxHashes

HashInitIds == 1..MaxHashInits

NoHashInit == [pc |-> "none", epoch |-> 0]

NoHash == [pc |-> "idle", waitOn |-> 0, api |-> NoHandle, epoch |-> 0]

NextHashInit ==
  IF \E j \in HashInitIds : hinits[j].pc = "none"
    THEN CHOOSE j \in HashInitIds :
           /\ hinits[j].pc = "none"
           /\ \A i \in HashInitIds : i < j => hinits[i].pc # "none"
    ELSE 0

\* pedersenHash(inputs) is called: runs getBarretenberg() to its first await.
\*   if (bbApi) return bbApi;
\*   if (bbInitPromise) { await bbInitPromise; return bbApi; }
\*   bbInitPromise = (async () => { ...; bbApi = await Barretenberg.new(); })();
pedersenHash(h) ==
  /\ UNCHANGED notServiceVars
  /\ UNCHANGED serviceVars
  /\ hcalls[h].pc = "idle"
  /\ \A g \in HashIds : g < h => hcalls[g].pc # "idle"
  /\ \/ /\ cryptoBbApi # NoHandle
        /\ hcalls' = [hcalls EXCEPT ![h] =
                        [pc |-> "pedersenHash", waitOn |-> 0, api |-> cryptoBbApi,
                         epoch |-> epoch]]
        /\ UNCHANGED <<bbInitPromise, hinits>>
     \/ /\ cryptoBbApi = NoHandle
        /\ bbInitPromise # 0
        /\ hcalls' = [hcalls EXCEPT ![h] =
                        [pc |-> "bbInitPromise", waitOn |-> bbInitPromise,
                         api |-> NoHandle, epoch |-> epoch]]
        /\ UNCHANGED <<bbInitPromise, hinits>>
     \/ /\ cryptoBbApi = NoHandle
        /\ bbInitPromise = 0
        /\ NextHashInit # 0
        /\ hcalls' = [hcalls EXCEPT ![h] =
                        [pc |-> "bbInitPromise", waitOn |-> NextHashInit,
                         api |-> NoHandle, epoch |-> epoch]]
        /\ hinits' = [hinits EXCEPT ![NextHashInit] =
                        [pc |-> "Barretenberg_new", epoch |-> epoch]]
        /\ bbInitPromise' = NextHashInit
  /\ UNCHANGED cryptoBbApi

\* the import and `bbApi = await Barretenberg.new()` of getBarretenberg's
\* async body settle; the body has no catch, bbInitPromise is left as it is.
getBarretenbergSettles(j, ok) ==
  /\ UNCHANGED notServiceVars
  /\ UNCHANGED serviceVars
  /\ hinits[j].pc = "Barretenberg_new"
  /\ IF ok
       THEN /\ cryptoBbApi' = cryptoHandle(j)
            /\ hinits' = [hinits EXCEPT ![j].pc = "fulfilled"]
       ELSE /\ hinits' = [hinits EXCEPT ![j].pc = "rejected"]
            /\ UNCHANGED cryptoBbApi
  /\ UNCHANGED <<bbInitPromise, hcalls>>

\* `await bbInitPromise` settles for a pedersenHash call: `return bbApi`.
bbInitAwaited(h) ==
  /\ UNCHANGED notServiceVars
  /\ UNCHANGED serviceVars
  /\ hcalls[h].pc = "bbInitPromise"
  /\ hinits[hcalls[h].waitOn].pc \in {"fulfilled", "rejected"}
  /\ hcalls' = [hcalls EXCEPT ![h] =
       IF hinits[hcalls[h].waitOn].pc = "rejected"
         THEN [@ EXCEPT !.pc = "threw"]
         ELSE [@ EXCEPT !.pc = "pedersenHash", !.api = cryptoBbApi]]
  /\ UNCHANGED <<cryptoBbApi, bbInitPromise, hinits>>

\* `await api.pedersenHash(frInputs, 0)` settles.
hashed(h) ==
  /\ UNCHANGED notServiceVars
  /\ UNCHANGED serviceVars
  /\ hcalls[h].pc = "pedersenHash"
  /\ hcalls' = [hcalls EXCEPT ![h].pc = "returned"]
  /\ UNCHANGED <<cryptoBbApi, bbInitPromise, hinits>>

\* the caller has the hash (or the exception); the slot is free again.
hashSettled(h) ==
  /\ UNCHANGED notServiceVars
  /\ UNCHANGED serviceVars
  /\ hcalls[h].pc \in {"returned", "threw"}
  /\ \A g \in HashIds : g > h => hcalls[g].pc = "idle"
  /\ hcalls' = [hcalls EXCEPT ![h] = NoHash]
  /\ UNCHANGED <<cryptoBbApi, bbInitPromise, hinits>>

InitCrypto ==
  /\ cryptoBbApi = NoHandle
  /\ bbInitPromise = 0
  /\ hinits = [j \in HashInitIds |-> NoHashInit]
  /\ hcalls = [h \in HashIds |-> NoHash]

NextCrypto ==
  \/ \E h \in HashIds : pedersenHash(h)
  \/ \E j \in HashInitIds, ok \in BOOLEAN : getBarretenbergSettles(j, ok)
  \/ \E h \in HashIds : bbInitAwaited(h)
  \/ \E h \in HashIds : hashed(h)
  \/ \E h \in HashIds : hashSettled(h)

(***************************************************************************)
(* Properties of the proof service and the hashing adapter                 *)
(***************************************************************************)

\* C1: when two loadCircuit calls for one circuit name are in flight at the
\* same time, only one of them fetches the circuit, only one constructs a
\* backend, and both return the same CachedCircuit.
C1_SingleFlightPerCircuit ==
  \A c \in CallIds : \A d \in calls[c].concurrent :
    /\ ~(calls[c].fetched /\ calls[d].fetched)
    /\ ~(calls[c].constructed /\ calls[d].constructed)
    /\ (calls[c].pc = "returned" /\ calls[d].pc = "returned") =>
          calls[c].ret = calls[d].ret

\* the first loadCircuit call made after the latest clearCircuitCache
FirstAfterClear(c) ==
  /\ calls[c].pc # "idle"
  /\ calls[c].epoch = epoch
  /\ \A d \in CallIds : d < c => calls[d].epoch < epoch

\* C8: a loadCircuit call made after clearCircuitCache() returned with no
\* load in flight never returns a CachedCircuit whose load began before the
\* clear, nor a backend on a handle created by a module load begun before
\* the clear; and the first such call runs its own module load after the
\* clear, fetches the circuit itself and constructs a backend on the handle
\* that module load created.
C8_FreshLoadAfterClear ==
  \A c \in CallIds :
    (calls[c].clean /\ calls[c].pc = "returned") =>
      /\ calls[calls[c].ret].epoch >= calls[c].epoch
      /\ circuits[calls[c].ret].exists
      /\ circuits[calls[c].ret].handle.by = "loadModules" =>
            inits[circuits[calls[c].ret].handle.task].epoch >= calls[c].epoch
      /\ FirstAfterClear(c) =>
            /\ calls[c].ret = c
            /\ calls[c].fetched
            /\ calls[c].constructed
            /\ calls[c].waitOn # 0
            /\ inits[calls[c].waitOn].epoch = calls[c].epoch
            /\ circuits[c].handle = moduleHandle(calls[c].waitOn)

C8_Witness ==
  \E c, d \in CallIds :
    /\ d < c
    /\ calls[d].pc = "returned" /\ calls[d].epoch = 0 /\ calls[d].ret = d
    /\ calls[c].name = calls[d].name
    /\ calls[c].clean /\ calls[c].pc = "returned" /\ calls[c].epoch = 1
    /\ FirstAfterClear(c)
    /\ circuitCache[calls[c].name] = c

\* nothing of the proof service is running, and nothing was started since
\* the latest clearCircuitCache
QuietSinceClear ==
  /\ \A c \in CallIds : ~CallInFlight(c) /\ (calls[c].pc # "idle" => calls[c].epoch < epoch)
  /\ \A k \in InitIds : ~InitInFlight(k) /\ (inits[k].pc # "none" => inits[k].epoch < epoch)

\* C9: when clearCircuitCache() ran while a module load or a circuit load
\* was in flight, then after that load has settled the cache is empty,
\* isZKReady() is false and no handle is set; and a loadCircuit call made
\* after the clear never returns a CachedCircuit built by a call made
\* before it.
C9_StaleLoadLeavesServiceCleared ==
  /\ (epoch >= 1 /\ ~lastClearClean /\ QuietSinceClear) =>
        /\ \A n \in CircuitNames : circuitCache[n] = 0
        /\ ~isZKReady
        /\ bbApi = NoHandle
  /\ \A c \in CallIds :
        (calls[c].pc = "returned" /\ calls[c].epoch = epoch) =>
           calls[calls[c].ret].epoch = epoch

\* the Barretenberg instances created so far
CreatedHandles ==
  {moduleHandle(k) : k \in {i \in InitIds : inits[i].pc = "fulfilled"}}
    \cup {cryptoHandle(j) : j \in {i \in HashInitIds : hinits[i].pc = "fulfilled"}}

\* the instances that backends were constructed on and hashes were run on
UsedHandles ==
  {calls[c].handle : c \in {d \in CallIds : calls[d].constructed}}
    \cup {hcalls[h].api : h \in {g \in HashIds : hcalls[g].pc \in {"pedersenHash", "returned"}}}

\* C10: before any clearCircuitCache, at most one Barretenberg instance has
\* been created, and every backend constructed and every pedersenHash run
\* uses that one instance.
C10_OneSharedHandle ==
  epoch = 0 =>
    /\ Cardinality(CreatedHandles) <= 1
    /\ UsedHandles \subseteq CreatedHandles
    /\ Cardinality(UsedHandles) <= 1

(***************************************************************************)
(* proofService.js: generate*Proof, generateProof, verifyProofLocally      *)
(***************************************************************************)

\* how many generate*Proof / verifyProofLocally calls a behaviour holds
MaxJobs == 2

JobIds == 1..MaxJobs

\* JavaScript values a caller can put in an input field
Str(s) == [t |-> "string", s |-> s]

NullValue == [t |-> "null", s |-> ""]

UndefinedValue == [t |-> "undefined", s |-> ""]

RawValues ==
  {NullValue, UndefinedValue, Str(""), Str("0x"), Str("0x1f"), Str("0xzz"),
   Str("31"), [t |-> "bigint", s |-> "31"], [t |-> "number", s |-> "31"]}

\* BigInt(hex).toString() for the hex literals above; BigInt throws on others
HexToDecimal == [h \in {"0x1f"} |-> "31"]

\* the values tried for the fields a generator passes through String()
PlainValues == {NullValue, Str(""), Str("2"), [t |-> "number", s |-> "2"]}

\* crypto.js fieldToDecimalString(field)
fieldToDecimalString(field) ==
  IF field.t \in {"undefined", "null"} THEN Str("0")
  ELSE IF field.t \in {"bigint", "number"} THEN Str(field.s)
  ELSE IF field.t = "string"
    THEN IF field.s \in {"", "0x"} THEN Str("0")
         ELSE IF Len(field.s) >= 2 /\ SubSeq(field.s, 1, 2) \in {"0x", "0X"}
           THEN IF field.s \in DOMAIN HexToDecimal
                  THEN Str(HexToDecimal[field.s])
                  ELSE Str("0")
           ELSE field
  ELSE Str("0")

\* String(value)
JsString(value) ==
  IF value.t = "null" THEN Str("null")
  ELSE IF value.t = "undefined" THEN Str("undefined")
  ELSE Str(value.s)

\* mutant: validateInputs accepts every value
invalidValue_never(value) == FALSE

\* validateInputs: the test applied to every field and array element
invalidValue(value) ==
  \/ value.t \in {"undefined", "null"}
  \/ value.t = "string" /\ value.s \in {"0x", ""}

\* validateInputs(inputs) throws
validateInputsThrows(inputs) == \E i \in 1..Len(inputs) : invalidValue(inputs[i])

NoJob ==
  [kind |-> "none", pc |-> "idle", name |-> "none", call |-> 0,
   rawInvalid |-> FALSE, nullProof |-> FALSE, backend |-> "none",
   how |-> "none", valid |-> FALSE, error |-> "none"]

\* the loadCircuit call slot a new job uses, 0 when the bound is reached
NextCall ==
  IF \E c \in CallIds : calls[c].pc = "idle"
    THEN CHOOSE c \in CallIds :
           /\ calls[c].pc = "idle"
           /\ \A d \in CallIds : d < c => calls[d].pc # "idle"
    ELSE 0

JobFree(j) ==
  /\ jobs[j].pc = "idle"
  /\ \A i \in JobIds : i < j => jobs[i].pc # "idle"

returns(job, valid, error) ==
  [job EXCEPT !.pc = "settled", !.how = "returned", !.valid = valid, !.error = error]

throws(job, error) ==
  [job EXCEPT !.pc = "settled", !.how = "threw", !.error = error]

\* mutant: the catch of verifyProofLocally rethrows
verifyCatch_rethrows(job, message) == throws(job, message)

\* verifyProofLocally's catch:
\*   return { valid: false, error: error.message || 'Unknown verification error' }
verifyCatch(job, message) ==
  returns(job, FALSE, IF message = "" THEN "Unknown verification error" ELSE message)

\* mutant: the options object is left out, the backend's default transcript
defaultTranscript == [keccak |-> FALSE]

\* the options of backend.generateProof(witness, { keccak: true })
proveOptions == [keccak |-> TRUE]

\* the options of backend.verifyProof({...}, { keccak: true })
verifyOptions == [keccak |-> TRUE]

\* the options of backend.getVerificationKey({ keccak: true })
vkOptions == [keccak |-> TRUE]

backendCall(op, opts) == [op |-> op, options |-> opts]

\* what `await circuit.backend.verifyProof(...)` can do
VerifierOutcomes == {"true", "false", "throws", "throws without message"}

ProofArguments == {"proof", "null"}

\* the names verifyProofLocally is called with; "hearts" is no circuit
RequestedNames == CircuitNames \cup {"hearts"}

\* verifyProofLocally(circuitName, proof) is called (verifyShuffleProof,
\* verifyDealProof and verifyShowProof pass their fixed name).
verifyProofLocally(j, circuitName, proof) ==
  /\ UNCHANGED <<notProofVars, vkCalls, backendCalls>>
  /\ JobFree(j)
  /\ LET job == [NoJob EXCEPT !.kind = "verifyProofLocally", !.name = circuitName,
                              !.nullProof = (proof = "null")]
     IN  IF circuitName \notin CircuitNames
           THEN /\ jobs' = [jobs EXCEPT ![j] = returns(job, FALSE, "Unknown circuit")]
                /\ UNCHANGED serviceVars
           ELSE /\ NextCall # 0
                /\ jobs' = [jobs EXCEPT ![j] =
                              [job EXCEPT !.pc = "loadCircuit", !.call = NextCall]]
                /\ loadCircuitCalled(NextCall, circuitName)

\* generateProof(circuitName, inputs) is called with the inputs a generator
\* built: validateInputs, then loadCircuit up to its first await.
generateProof(j, kind, circuitName, raws, inputs) ==
  /\ JobFree(j)
  /\ LET job == [NoJob EXCEPT !.kind = kind, !.name = circuitName,
                              !.rawInvalid =
                                 (\E i \in 1..Len(raws) :
                                    raws[i] \in {NullValue, UndefinedValue,
                                                 Str(""), Str("0x")})]
     IN  IF validateInputsThrows(inputs)
           THEN /\ jobs' = [jobs EXCEPT ![j] = throws(job, "Invalid circuit input")]
                /\ UNCHANGED serviceVars
           ELSE /\ NextCall # 0
                /\ jobs' = [jobs EXCEPT ![j] =
                              [job EXCEPT !.pc = "loadCircuit", !.call = NextCall]]
                /\ loadCircuitCalled(NextCall, circuitName)

\* generateShuffleProof(input): uids_in / uids_out through fieldToDecimalString
generateShuffleProof(j, uid) ==
  /\ UNCHANGED <<notProofVars, vkCalls, backendCalls>>
  /\ generateProof(j, "generateShuffleProof", "shuffle", <<uid>>,
                   <<fieldToDecimalString(uid)>>)

\* generateDealProof(input): field elements through fieldToDecimalString,
\* positions and indices through String
generateDealProof(j, player_id, position) ==
  /\ UNCHANGED <<notProofVars, vkCalls, backendCalls>>
  /\ generateProof(j, "generateDealProof", "deal", <<player_id, position>>,
                   <<fieldToDecimalString(player_id), JsString(position)>>)

\* generateShowProof(input): field elements through fieldToDecimalString,
\* ranks, suits, hand_rank, positions and indices through String
generateShowProof(j, game_id, card_rank_0) ==
  /\ UNCHANGED <<notProofVars, vkCalls, backendCalls>>
  /\ generateProof(j, "generateShowProof", "show", <<game_id, card_rank_0>>,
                   <<fieldToDecimalString(game_id), JsString(card_rank_0)>>)

\* `await loadCircuit(artifact)` settles for a job.
loadCircuitAwaited(j) ==
  /\ UNCHANGED <<notProofVars, vkCalls, serviceVars>>
  /\ jobs[j].pc = "loadCircuit"
  /\ calls[jobs[j].call].pc \in {"returned", "threw"}
  /\ jobs' = [jobs EXCEPT ![j] =
       IF jobs[j].kind = "verifyProofLocally"
         THEN IF calls[jobs[j].call].pc = "threw"
                THEN verifyCatch(@, calls[jobs[j].call].error)
              ELSE IF jobs[j].nullProof
                THEN verifyCatch(@, "Cannot read properties of null")
              ELSE [@ EXCEPT !.pc = "verifyProof"]
         ELSE IF calls[jobs[j].call].pc = "threw"
                THEN throws(@, calls[jobs[j].call].error)
                ELSE [@ EXCEPT !.pc = "execute"]]
  /\ backendCalls' =
       IF jobs'[j].pc = "verifyProof"
         THEN backendCalls \cup {backendCall("verifyProof", verifyOptions)}
         ELSE backendCalls

\* `await circuit.backend.verifyProof(...)` settles.
verifyProofSettles(j, outcome) ==
  /\ UNCHANGED <<notProofVars, vkCalls, serviceVars>>
  /\ jobs[j].pc = "verifyProof"
  /\ UNCHANGED backendCalls
  /\ jobs' = [jobs EXCEPT ![j] =
       IF outcome = "throws"
         THEN verifyCatch([@ EXCEPT !.backend = outcome], "backend error")
       ELSE IF outcome = "throws without message"
         THEN verifyCatch([@ EXCEPT !.backend = outcome], "")
       ELSE returns([@ EXCEPT !.backend = outcome], outcome = "true", "none")]

\* `await circuit.noir.execute(inputs)` settles.
executeSettles(j, ok) ==
  /\ UNCHANGED <<notProofVars, vkCalls, serviceVars>>
  /\ jobs[j].pc = "execute"
  /\ jobs' = [jobs EXCEPT ![j] =
       IF ok THEN [@ EXCEPT !.pc = "generateProof"]
             ELSE throws(@, "circuit execution failed")]
  /\ backendCalls' =
       IF ok THEN backendCalls \cup {backendCall("generateProof", proveOptions)}
             ELSE backendCalls

\* `await circuit.backend.generateProof(witness, ...)` settles; on success
\* getVerificationKey(circuit) runs up to its await:
\*   if (circuit.vk) return circuit.vk;
\*   const vk = await circuit.backend.getVerificationKey({ keccak: true });
proveSettles(j, ok) ==
  /\ UNCHANGED <<notProofVars, serviceVars>>
  /\ jobs[j].pc = "generateProof"
  /\ LET r == calls[jobs[j].call].ret
     IN  IF ~ok
           THEN /\ jobs' = [jobs EXCEPT ![j] = throws(@, "prover failed")]
                /\ UNCHANGED <<vkCalls, backendCalls>>
         ELSE IF circuits[r].vk # "none"
           THEN /\ jobs' = [jobs EXCEPT ![j] = returns(@, TRUE, "none")]
                /\ UNCHANGED <<vkCalls, backendCalls>>
         ELSE /\ jobs' = [jobs EXCEPT ![j].pc = "getVerificationKey"]
              /\ vkCalls' = [vkCalls EXCEPT ![r] = @ + 1]
              /\ backendCalls' =
                   backendCalls \cup {backendCall("getVerificationKey", vkOptions)}

\* `await circuit.backend.getVerificationKey(...)` settles:
\*   circuit.vk = vk; return vk;   and generateProof returns the proof.
vkGenerated(j, ok) ==
  /\ UNCHANGED <<notProofVars, vkCalls, backendCalls>>
  /\ jobs[j].pc = "getVerificationKey"
  /\ LET r == calls[jobs[j].call].ret
     IN  IF ok
           THEN /\ circuits' = [circuits EXCEPT ![r].vk = "generated"]
                /\ jobs' = [jobs EXCEPT ![j] = returns(@, TRUE, "none")]
           ELSE /\ jobs' = [jobs EXCEPT ![j] = throws(@, "key generation failed")]
                /\ UNCHANGED circuits
  /\ UNCHANGED <<moduleVars, circuitCache, inits, calls, epoch, lastClearClean>>

InitProof ==
  /\ jobs = [j \in JobIds |-> NoJob]
  /\ vkCalls = [c \in CallIds |-> 0]
  /\ backendCalls = {}

NextProof ==
  \/ \E j \in JobIds, n \in RequestedNames, p \in ProofArguments :
        verifyProofLocally(j, n, p)
  \/ \E j \in JobIds, v \in RawValues : generateShuffleProof(j, v)
  \/ \E j \in JobIds, v \in RawValues, w \in PlainValues : generateDealProof(j, v, w)
  \/ \E j \in JobIds, v \in RawValues, w \in PlainValues : generateShowProof(j, v, w)
  \/ \E j \in JobIds : loadCircuitAwaited(j)
  \/ \E j \in JobIds, o \in VerifierOutcomes : verifyProofSettles(j, o)
  \/ \E j \in JobIds, ok \in BOOLEAN : executeSettles(j, ok)
  \/ \E j \in JobIds, ok \in BOOLEAN : proveSettles(j, ok)
  \/ \E j \in JobIds, ok \in BOOLEAN : vkGenerated(j, ok)

(***************************************************************************)
(* Properties of proof generation and local verification                   *)
(***************************************************************************)

\* C11: verifyProofLocally never throws.  For a name that is no circuit, for
\* a failed module or circuit load and for an exception of the backend
\* verifier it returns {valid: false, error}; otherwise it returns {valid}
\* with the boolean the backend verifier produced and no error.
C11_VerifyLocallyNeverThrows ==
  \A j \in JobIds :
    jobs[j].kind = "verifyProofLocally" =>
      /\ jobs[j].how # "threw"
      /\ jobs[j].pc = "settled" =>
           /\ jobs[j].how = "returned"
           /\ jobs[j].name \notin CircuitNames =>
                ~jobs[j].valid /\ jobs[j].error = "Unknown circuit" /\ jobs[j].call = 0
           /\ (jobs[j].call # 0 /\ calls[jobs[j].call].pc = "threw") =>
                ~jobs[j].valid /\ jobs[j].error = calls[jobs[j].call].error
           /\ jobs[j].backend \in {"throws", "throws without message"} =>
                ~jobs[j].valid /\ jobs[j].error \notin {"none", ""}
           /\ jobs[j].backend \in {"true", "false"} =>
                jobs[j].valid = (jobs[j].backend = "true") /\ jobs[j].error = "none"

C11_Witness ==
  \E i, j \in JobIds :
    /\ jobs[i].kind = "verifyProofLocally" /\ jobs[j].kind = "verifyProofLocally"
    /\ jobs[i].pc = "settled" /\ jobs[i].backend = "throws without message"
    /\ jobs[i].how = "returned" /\ ~jobs[i].valid
    /\ jobs[j].pc = "settled" /\ jobs[j].call \in CallIds
    /\ calls[jobs[j].call].pc = "threw"
    /\ jobs[j].how = "returned" /\ ~jobs[j].valid

\* C12: a generateShuffleProof / generateDealProof / generateShowProof call
\* whose input holds null, undefined, the empty string or the bare "0x" in
\* a field or array element fails with the input-validation error, and no
\* circuit load is started for it.
C12_PlaceholderInputRejected ==
  \A j \in JobIds :
    (jobs[j].kind \in {"generateShuffleProof", "generateDealProof", "generateShowProof"}
       /\ jobs[j].rawInvalid) =>
      /\ jobs[j].pc = "settled"
      /\ jobs[j].how = "threw"
      /\ jobs[j].error = "Invalid circuit input"
      /\ jobs[j].call = 0

\* C13: a failed module load or circuit fetch fails only the calls that were
\* waiting on it.  The stored initializationPromise is never a rejected one
\* and a new loadCircuit call never joins a promise that has already
\* rejected; the cache holds only circuits whose load completed; and, with
\* no clear, a call throws only for a failure of the module load it awaited
\* itself or of its own fetch.
C13_NoStickyResidue ==
  /\ initializationPromise # 0 => inits[initializationPromise].pc # "rejected"
  /\ \A n \in CircuitNames :
       circuitCache[n] # 0 =>
         /\ calls[circuitCache[n]].pc = "returned"
         /\ calls[circuitCache[n]].name = n
         /\ circuits[circuitCache[n]].exists
  /\ \A c \in CallIds :
       (calls[c].pc = "threw" /\ epoch = 0) =>
         \/ /\ calls[c].error = "module load failed"
            /\ calls[c].waitOn # 0
            /\ inits[calls[c].waitOn].pc = "rejected"
         \/ calls[c].error = "Failed to load circuit" /\ calls[c].fetched

C13_FailureIsNotSticky ==
  /\ []C13_NoStickyResidue
  /\ [][\A c \in CallIds :
          (calls[c].pc = "idle" /\ calls'[c].pc = "loadModules"
             /\ calls'[c].waitOn # 0) =>
            inits[calls'[c].waitOn].pc # "rejected"]_vars

C13_Witness ==
  \E c, d \in CallIds :
    /\ c < d
    /\ calls[c].name = calls[d].name
    /\ calls[c].pc = "threw" /\ calls[c].error = "module load failed"
    /\ calls[d].pc = "returned" /\ calls[d].ret = d /\ calls[d].waitOn # 0
    /\ calls[d].waitOn # calls[c].waitOn
    /\ epoch = 0

\* C14: a failed initialization of the hashing adapter's handle is not kept:
\* the stored bbInitPromise is never a rejected promise, so that a later
\* pedersenHash call starts a new initialization instead of awaiting the
\* failed one.
C14_HashInitFailureNotKept ==
  bbInitPromise # 0 => hinits[bbInitPromise].pc # "rejected"

\* C15: loadCircuit does not fail once the circuit is fetched and its
\* backend constructed, whatever the fetch of the precomputed key does; and
\* backend.getVerificationKey is invoked at most once on a CachedCircuit,
\* and not at all on one that was loaded with a precomputed key.
C15_KeyGeneratedAtMostOnce ==
  /\ \A c \in CallIds : calls[c].constructed => calls[c].pc # "threw"
  /\ \A c \in CallIds : vkCalls[c] <= 1
  /\ \A c \in CallIds : vkCalls[c] > 0 => circuits[c].vk # "precomputed"

(***************************************************************************)
(* zkVerifyService.js: submitProofToZkVerify                               *)
(***************************************************************************)

\* the vkRegistered argument: omitted, true or false
VkRegisteredArguments == {"undefined", "true", "false"}

\* the vkHash argument and the entry vkHashes[circuitName]: "none" = absent
VkHashArguments == {"none", "0xa1"}

RegisteredHashes == {"none", "0xb2"}

\* proof.verificationKey: "none" = absent, else the key bytes
VerificationKeys == {"none", "key"}

\* proofToHex(bytes) for the key bytes above
proofToHex == [k \in {"key"} |-> "0x6b6579"]

\* const useRegistered = vkRegistered !== undefined ? vkRegistered : !!registeredHash
useRegistered(vkRegistered, registeredHash) ==
  IF vkRegistered # "undefined" THEN vkRegistered = "true" ELSE registeredHash # "none"

\* const effectiveVkHash = vkHash || registeredHash
effectiveVkHash(vkHash, registeredHash) ==
  IF vkHash # "none" THEN vkHash ELSE registeredHash

\* payload.proofData.vk: `useRegistered && effectiveVkHash ? ... : ...`
payloadUsesHash(vkRegistered, vkHash, registeredHash, verificationKey) ==
  /\ useRegistered(vkRegistered, registeredHash)
  /\ effectiveVkHash(vkHash, registeredHash) # "none"

NoSubmission ==
  [pc |-> "idle", circuitName |-> "none", vkRegistered |-> "undefined", vkHash |-> "none",
   registeredHash |-> "none", verificationKey |-> "none",
   payload |-> [vkRegistered |-> FALSE, vk |-> "none"], requests |-> 0,
   error |-> "none"]

\* submitProofToZkVerify({circuitName, proof, vkRegistered, vkHash}) is
\* called: runs to `await fetch(url, ...)` or throws.
submitProofToZkVerify(circuitName, vkRegistered, vkHash, registeredHash, verificationKey) ==
  /\ UNCHANGED notSubmitVars
  /\ submission.pc = "idle"
  /\ LET call == [NoSubmission EXCEPT !.circuitName = circuitName,
                                      !.vkRegistered = vkRegistered,
                                      !.vkHash = vkHash,
                                      !.registeredHash = registeredHash,
                                      !.verificationKey = verificationKey]
         use == useRegistered(vkRegistered, registeredHash)
     IN  submission' =
           IF ~apiKey
             THEN [call EXCEPT !.pc = "threw",
                               !.error = "VITE_KURIER_API_KEY is not configured"]
           ELSE IF verificationKey = "none" /\ ~use
             THEN [call EXCEPT !.pc = "threw",
                               !.error = "Verification key is required"]
           ELSE IF payloadUsesHash(vkRegistered, vkHash, registeredHash, verificationKey)
             THEN [call EXCEPT !.pc = "fetch", !.requests = 1,
                               !.payload = [vkRegistered |-> use,
                                            vk |-> effectiveVkHash(vkHash, registeredHash)]]
           ELSE IF verificationKey \notin DOMAIN proofToHex
             THEN \* proofToHex(undefined): Array.from throws
                  [call EXCEPT !.pc = "threw", !.error = "TypeError"]
           ELSE [call EXCEPT !.pc = "fetch", !.requests = 1,
                             !.payload = [vkRegistered |-> use,
                                          vk |-> proofToHex[verificationKey]]]

\* the POST settles: `return data`, or the error is logged and rethrown
submitResponds(ok) ==
  /\ UNCHANGED notSubmitVars
  /\ submission.pc = "fetch"
  /\ submission' =
       IF ok THEN [submission EXCEPT !.pc = "returned"]
             ELSE [submission EXCEPT !.pc = "threw", !.error = "submit failed"]

\* the caller has the job id or the exception
submitSettled ==
  /\ UNCHANGED notSubmitVars
  /\ submission.pc \in {"returned", "threw"}
  /\ submission' = NoSubmission

InitSubmit == submission = NoSubmission

NextSubmit ==
  \/ \E n \in CircuitNames, r \in VkRegisteredArguments, h \in VkHashArguments,
        t \in RegisteredHashes, k \in VerificationKeys :
        submitProofToZkVerify(n, r, h, t, k)
  \/ \E ok \in BOOLEAN : submitResponds(ok)
  \/ submitSettled

\* C16: every submit-proof request carries either vkRegistered = true with a
\* verification-key hash or vkRegistered = false with the hex of the proof's
\* raw key; the hash form is used whenever vkHashes holds a hash for the
\* circuit; and a call with no hash and no raw key sends no request.
C16_PayloadKeyMatchesFlag ==
  submission.requests > 0 =>
    /\ \/ /\ submission.payload.vkRegistered
          /\ submission.payload.vk \in {"0xa1", "0xb2"}
       \/ /\ ~submission.payload.vkRegistered
          /\ submission.verificationKey = "key"
          /\ submission.payload.vk = "0x6b6579"
    /\ submission.registeredHash # "none" =>
          submission.payload.vkRegistered /\ submission.payload.vk \in {"0xa1", "0xb2"}
    /\ ~(submission.vkHash = "none" /\ submission.registeredHash = "none"
           /\ submission.verificationKey = "none")

(***************************************************************************)
(* onChainVerifier: verifyOnChainWithTransaction                           *)
(***************************************************************************)

\* s.includes(sub)
Includes(s, sub) ==
  \E i \in 1..(Len(s) - Len(sub) + 1) : SubSeq(s, i, i + Len(sub) - 1) = sub

\* how the three awaited calls can end; a string other than "ok", "hash",
\* "success" and "reverted receipt" is the shortMessage / message of the
\* error raised, "" an error with neither
SimulateOutcomes == {"ok", "execution reverted", ""}

WriteOutcomes ==
  {"hash", "User rejected the request.", "MetaMask: user rejected transaction",
   "insufficient funds for gas"}

ReceiptOutcomes == {"success", "reverted receipt", "Timed out while waiting for transaction"}

\* how many verifyOnChainWithTransaction calls a behaviour holds
MaxRecordings == 2

\* made / passed / sent: the calls made, the simulations that succeeded and
\* the writeContract calls issued since the page was loaded
NoTx ==
  [pc |-> "idle", circuitType |-> "none", log |-> <<>>, simulated |-> "none",
   wrote |-> "none", receipt |-> "none", verified |-> FALSE, txHash |-> "none",
   error |-> "none", made |-> 0, passed |-> 0, sent |-> 0]

\* mutant: the catch returns the message of every error as it is
txCatch_plain(call, message) ==
  [call EXCEPT !.pc = "returned", !.verified = FALSE,
               !.error = IF message = "" THEN "Unknown error" ELSE message]

\* the catch of verifyOnChainWithTransaction
txCatch(call, message) ==
  LET text == IF message = "" THEN "Unknown error" ELSE message
  IN  [call EXCEPT !.pc = "returned", !.verified = FALSE,
                   !.error = IF Includes(text, "User rejected")
                                  \/ Includes(text, "user rejected")
                               THEN "Transaction rejected by user"
                               ELSE text]

\* mutant: the transaction is submitted whatever the simulation did
simulationPassed_always(outcome) == TRUE

\* `const { request } = await baseSepoliaClient.simulateContract(...)`
\* resolved (a failed simulation rejects)
simulationPassed(outcome) == outcome = "ok"

\* verifyOnChainWithTransaction(circuitType, proof, walletClient) is called:
\* runs to `await baseSepoliaClient.simulateContract(...)` or returns.
verifyOnChainWithTransaction(ct, deployed, wallet, wellFormed) ==
  /\ UNCHANGED notTxVars
  /\ tx.pc = "idle"
  /\ tx.made < MaxRecordings
  /\ LET call == [tx EXCEPT !.circuitType = ct, !.made = @ + 1]
     IN  tx' =
           IF ~deployed
             THEN [call EXCEPT !.pc = "returned", !.error = "No verifier address deployed"]
           ELSE IF ~wallet
             THEN [call EXCEPT !.pc = "returned", !.error = "No wallet connected"]
           ELSE IF ~wellFormed
             THEN \* formatProofForContract(proof) throws inside the try
                  txCatch(call, "Cannot convert to a BigInt")
           ELSE [call EXCEPT !.pc = "simulateContract", !.log = <<"simulateContract">>]

\* `await baseSepoliaClient.simulateContract(...)` settles.
simulateSettles(outcome) ==
  /\ UNCHANGED notTxVars
  /\ tx.pc = "simulateContract"
  /\ tx' =
       IF simulationPassed(outcome)
         THEN [tx EXCEPT !.pc = "writeContract", !.simulated = outcome,
                         !.passed = IF outcome = "ok" THEN @ + 1 ELSE @,
                         !.sent = @ + 1,
                         !.log = Append(@, "writeContract")]
         ELSE txCatch([tx EXCEPT !.simulated = outcome], outcome)

\* `await walletClient.writeContract(request)` settles (the wallet prompt).
writeSettles(outcome) ==
  /\ UNCHANGED notTxVars
  /\ tx.pc = "writeContract"
  /\ tx' =
       IF outcome = "hash"
         THEN [tx EXCEPT !.pc = "waitForTransactionReceipt", !.wrote = outcome,
                         !.txHash = "0xhash",
                         !.log = Append(@, "waitForTransactionReceipt")]
         ELSE txCatch([tx EXCEPT !.wrote = outcome], outcome)

\* `await baseSepoliaClient.waitForTransactionReceipt(...)` settles.
receiptSettles(outcome) ==
  /\ UNCHANGED notTxVars
  /\ tx.pc = "waitForTransactionReceipt"
  /\ tx' =
       IF outcome \in {"success", "reverted receipt"}
         THEN [tx EXCEPT !.pc = "returned", !.receipt = outcome,
                         !.verified = (outcome = "success")]
         ELSE txCatch([tx EXCEPT !.receipt = outcome], outcome)

\* the caller (handleRecordOnChain) has the result
txSettled ==
  /\ UNCHANGED notTxVars
  /\ tx.pc = "returned"
  /\ tx' = [NoTx EXCEPT !.made = tx.made, !.passed = tx.passed, !.sent = tx.sent]

InitTx == tx = NoTx

NextTx ==
  \/ \E ct \in CircuitNames, deployed, wallet, wellFormed \in BOOLEAN :
        verifyOnChainWithTransaction(ct, deployed, wallet, wellFormed)
  \/ \E o \in SimulateOutcomes : simulateSettles(o)
  \/ \E o \in WriteOutcomes : writeSettles(o)
  \/ \E o \in ReceiptOutcomes : receiptSettles(o)
  \/ txSettled

\* C17: walletClient.writeContract is called only after simulateContract
\* succeeded, waitForTransactionReceipt only after writeContract returned a
\* transaction hash, and after a failed simulation no transaction is
\* submitted.
C17_SimulateThenWriteThenWait ==
  /\ \E n \in 0..3 :
       tx.log = SubSeq(<<"simulateContract", "writeContract",
                         "waitForTransactionReceipt">>, 1, n)
  /\ Len(tx.log) >= 2 => tx.simulated = "ok"
  /\ Len(tx.log) = 3 => tx.wrote = "hash" /\ tx.txHash # "none"
  /\ tx.simulated \notin {"none", "ok"} => tx.log = <<"simulateContract">>
  /\ tx.sent <= tx.passed

C17_Witness ==
  /\ tx.pc = "returned"
  /\ tx.verified
  /\ tx.log = <<"simulateContract", "writeContract", "waitForTransactionReceipt">>

\* C18: verifyOnChainWithTransaction never throws.  A reverted receipt is
\* returned as {verified: false, txHash} without an error; the error is
\* 'Transaction rejected by user' exactly when the wallet prompt was
\* rejected; and with no verifier address or no wallet the result is
\* {verified: false, error} and neither simulation nor transaction is made.
C18_FailuresAreResults ==
  /\ tx.pc # "threw"
  /\ tx.pc = "returned" =>
       /\ tx.receipt = "reverted receipt" =>
            ~tx.verified /\ tx.txHash # "none" /\ tx.error = "none"
       /\ tx.error = "Transaction rejected by user" <=>
            tx.wrote \in {"User rejected the request.",
                          "MetaMask: user rejected transaction"}
       /\ tx.error \in {"No verifier address deployed", "No wallet connected"} =>
            ~tx.verified /\ tx.log = <<>>
       /\ tx.verified <=> tx.receipt = "success"
       /\ ~tx.verified /\ tx.receipt # "reverted receipt" => tx.error # "none"
       /\ tx.log = <<>> => tx.error # "none"

C18_Witness ==
  /\ tx.pc = "returned"
  /\ tx.wrote = "User rejected the request."
  /\ tx.error = "Transaction rejected by user"
  /\ ~tx.verified

(***************************************************************************)
(* zkVerifyService.js: checkKurierHealth and its cache                     *)
(***************************************************************************)

HEALTH_CACHE_MS == 60000

\* how many checkKurierHealth calls a behaviour holds
MaxChecks == 3

\* Date.now() when the page is loaded, the step of the clock and how many
\* steps it takes
StartTime == 120000

ClockStep == 30000

MaxTicks == 4

CheckIds == 1..MaxChecks

NoHealth == [status |-> "null", version |-> "null", timestamp |-> 0]

NoCheck ==
  [pc |-> "idle", via |-> "none", now |-> 0, requested |-> FALSE,
   ret |-> NoHealth, available |-> "none"]

\* mutant: the cache is never fresh
cacheFresh_never(now) == FALSE

\* `cachedHealth && now - lastHealthCheck < HEALTH_CACHE_MS`
cacheFresh(now) ==
  cachedHealth # NoHealth /\ now - lastHealthCheck < HEALTH_CACHE_MS

\* the record built from the outcome of the status request
healthRecord(key, resp, stamp) ==
  [status |-> checkKurierHealth(key, resp),
   version |-> IF ~key THEN "not-configured"
               ELSE IF resp = "ok" THEN "kurier-api"
               ELSE IF resp = "notOk" THEN "unknown"
               ELSE "assumed-available",
   timestamp |-> stamp]

\* what the caller named by via gets: isKurierAvailable returns
\* `health.status !== 'down'`, checkKurierHealth the record itself
availableOf(via, health) ==
  IF via # "isKurierAvailable" THEN "none"
  ELSE IF health.status # "down" THEN "true" ELSE "false"

\* the body of checkKurierHealth up to its return or its `await fetch`;
\* via names the exported function the caller used
checkKurierHealthStarts(i, via) ==
  /\ checks[i].pc = "idle"
  /\ \A h \in CheckIds : h < i => checks[h].pc # "idle"
  /\ IF cacheFresh(dateNow)
       THEN /\ checks' = [checks EXCEPT ![i] =
                            [pc |-> "returned", via |-> via, now |-> dateNow,
                             requested |-> FALSE, ret |-> cachedHealth,
                             available |-> availableOf(via, cachedHealth)]]
            /\ UNCHANGED <<cachedHealth, lastHealthCheck>>
     ELSE IF ~apiKey
       THEN /\ cachedHealth' = healthRecord(FALSE, "none", dateNow)
            /\ lastHealthCheck' = dateNow
            /\ checks' = [checks EXCEPT ![i] =
                            [pc |-> "returned", via |-> via, now |-> dateNow,
                             requested |-> FALSE, ret |-> cachedHealth',
                             available |-> availableOf(via, cachedHealth')]]
     ELSE /\ checks' = [checks EXCEPT ![i] =
                          [pc |-> "fetch", via |-> via, now |-> dateNow,
                           requested |-> TRUE, ret |-> NoHealth,
                           available |-> "none"]]
          /\ UNCHANGED <<cachedHealth, lastHealthCheck>>
  /\ UNCHANGED dateNow

\* checkKurierHealth() is called: returns the cached record, or the 'down'
\* record of a build without key, or runs to `await fetch(.../status)`.
checkKurierHealthCalled(i) ==
  /\ UNCHANGED notHealthVars
  /\ checkKurierHealthStarts(i, "checkKurierHealth")

\* isKurierAvailable() is called: `if (!KURIER_API_KEY) return false;`,
\* otherwise `await checkKurierHealth()`.
isKurierAvailableCalled(i) ==
  /\ UNCHANGED notHealthVars
  /\ IF ~apiKey
       THEN /\ checks[i].pc = "idle"
            /\ \A h \in CheckIds : h < i => checks[h].pc # "idle"
            /\ checks' = [checks EXCEPT ![i] =
                            [pc |-> "returned", via |-> "isKurierAvailable",
                             now |-> dateNow, requested |-> FALSE,
                             ret |-> NoHealth, available |-> "false"]]
            /\ UNCHANGED <<cachedHealth, lastHealthCheck, dateNow>>
       ELSE checkKurierHealthStarts(i, "isKurierAvailable")

\* the status request of call i settles:
\*   cachedHealth = {...}; lastHealthCheck = now; return cachedHealth
statusResponds(i, resp) ==
  /\ UNCHANGED notHealthVars
  /\ checks[i].pc = "fetch"
  /\ cachedHealth' = healthRecord(TRUE, resp, dateNow)
  /\ lastHealthCheck' = checks[i].now
  /\ checks' = [checks EXCEPT ![i] =
                  [@ EXCEPT !.pc = "returned", !.ret = cachedHealth',
                            !.available = availableOf(checks[i].via, cachedHealth')]]
  /\ UNCHANGED dateNow

\* time passes
clockAdvances ==
  /\ UNCHANGED notHealthVars
  /\ dateNow < StartTime + MaxTicks * ClockStep
  /\ dateNow' = dateNow + ClockStep
  /\ UNCHANGED <<cachedHealth, lastHealthCheck, checks>>

InitHealth ==
  /\ cachedHealth = NoHealth
  /\ lastHealthCheck = 0
  /\ dateNow = StartTime
  /\ checks = [i \in CheckIds |-> NoCheck]

NextHealth ==
  \/ \E i \in CheckIds : checkKurierHealthCalled(i)
  \/ \E i \in CheckIds : isKurierAvailableCalled(i)
  \/ \E i \in CheckIds, resp \in StatusResponses : statusResponds(i, resp)
  \/ clockAdvances

\* the calls in which the body of checkKurierHealth ran
HealthChecks ==
  {i \in CheckIds : checks[i].pc # "idle" /\ (apiKey \/ checks[i].via = "checkKurierHealth")}

\* C19: a checkKurierHealth call made less than 60 seconds after a call
\* that issued a status request issues none itself and returns the cached
\* record, the one the earlier call returned; a call made 60 seconds or
\* more after the latest check issues a new request (in a build with key).
C19_OneRequestPerWindow ==
  \A i, j \in HealthChecks :
    i < j =>
      /\ (checks[i].requested /\ checks[j].now - checks[i].now < HEALTH_CACHE_MS) =>
           /\ ~checks[j].requested
           /\ checks[i].pc = "returned" /\ checks[j].ret = checks[i].ret
      /\ (apiKey /\ \A h \in HealthChecks :
                      h < j => checks[j].now - checks[h].now >= HEALTH_CACHE_MS) =>
           checks[j].requested

\* what can happen in a build without API key: every entry point of the
\* orchestrator and of the health check, and the continuations they reach
NextKeyless ==
  \/ \E ct \in CircuitTypes \cup {"unknown"}, o \in VerificationOptions :
       verifyProofComprehensive(ct, o)
  \/ \E ct \in CircuitTypes \cup {"unknown"} : verifyFull(ct)
  \/ \E inner \in ProofServiceVerdicts : localSettles(inner)
  \/ \E resp \in StatusResponses : availabilitySettles(resp)
  \/ \E deployed \in BOOLEAN, read \in ReadOutcomes : onChainSettles(deployed, read)
  \/ comprehensiveSettled
  \/ \E i \in CheckIds : checkKurierHealthCalled(i)
  \/ \E i \in CheckIds : isKurierAvailableCalled(i)
  \/ clockAdvances

\* C20: in a build without API key, isKurierAvailable returns false at once,
\* without a status request and without touching the health cache, and no
\* call of the module issues a status request; verifyProofComprehensive with
\* the aggregator layer enabled, once past its availability check, holds the
\* record {submitted: false, error}, has not called submitProofToZkVerify,
\* and does not throw.
C20_MissingKeyMeansUnavailable ==
  ~apiKey =>
    /\ \A i \in CheckIds :
         /\ ~checks[i].requested
         /\ checks[i].pc \in {"idle", "returned"}
         /\ checks[i].via = "isKurierAvailable" =>
              /\ checks[i].available = "false"
              /\ checks[i].ret = NoHealth
    /\ vpc # "threw"
    /\ vpc # "submitProofToZkVerify"
    /\ \A k \in 1..Len(vlog) : vlog[k] # "submitProofToZkVerify"
    /\ (options.zkVerify /\ \E k \in 1..Len(vlog) : vlog[k] = "isKurierAvailable") =>
         \/ vpc = "isKurierAvailable" /\ result.zkVerify = NoZkVerify
         \/ /\ vpc \in {"verifyOnChain", "returned"}
            /\ result.zkVerify.present
            /\ ~result.zkVerify.submitted
            /\ result.zkVerify.error = "zkVerify not configured or unavailable"

C20_Witness ==
  /\ ~apiKey
  /\ options.zkVerify
  /\ vpc = "returned"
  /\ result.zkVerify.present
  /\ ~result.zkVerify.submitted
  /\ result.onChain.present
  /\ \E i \in CheckIds : checks[i].via = "isKurierAvailable" /\ checks[i].pc = "returned"
  /\ \E i \in CheckIds : checks[i].via = "checkKurierHealth" /\ checks[i].ret.status = "down"

\* C22: every call the proof service makes to the backend prover, verifier
\* and verification-key generator passes keccak: true, whatever the circuit
\* and the order of operations.
C22_KeccakTranscriptEverywhere ==
  /\ \A c \in backendCalls : c.options.keccak
  /\ \A j \in JobIds :
       jobs[j].pc \in {"verifyProof", "generateProof", "getVerificationKey"} =>
         \E c \in backendCalls : c.op = jobs[j].pc /\ c.options.keccak

C22_Witness ==
  /\ {c.op : c \in backendCalls} = {"verifyProof", "generateProof", "getVerificationKey"}
  /\ \E j \in JobIds : jobs[j].kind = "generateShowProof" /\ jobs[j].pc = "settled"
                       /\ jobs[j].how = "returned"

(***************************************************************************)
(* The caller of waitForVerification and its teardown                      *)
(***************************************************************************)

\* the teardown comes within this many status requests of the wait
MaxTeardownPolls == 2

NoTeardown == [done |-> FALSE, pc |-> "idle", polls |-> 0, sleeps |-> 0]

\* the page or session that awaits waitForVerification(jobId, onStatusUpdate)
\* is torn down while the wait runs.  The function takes no signal and hands
\* out no handle, and its timer id is not kept, so the teardown reaches
\* nothing of the wait: the step only records when it happened.
callerTornDown ==
  /\ ~teardown.done
  /\ wpc \in {"getVerificationStatus", "sleep"}
  /\ polls <= MaxTeardownPolls
  /\ teardown' = [done |-> TRUE, pc |-> wpc, polls |-> polls, sleeps |-> sleeps]
  /\ UNCHANGED notTeardownVars

\* a wait is started only by a live caller
waitStartedByLiveCaller ==
  /\ ~teardown.done
  /\ waitForVerification

InitTeardown == teardown = NoTeardown

NextTeardown ==
  \/ waitStartedByLiveCaller
  \/ \E status \in PolledStatuses : pollResolves(status)
  \/ pollRejects
  \/ sleepDone
  \/ waitSettled
  \/ callerTornDown

\* C21: once the caller of waitForVerification has been torn down, the wait
\* issues no further status request, starts no further sleep, and no poll
\* timer is pending.
C21_TeardownStopsPolling ==
  (teardown.done /\ wpc # "idle") =>
    /\ wpc # "sleep"
    /\ polls = teardown.polls
    /\ sleeps = teardown.sleeps

(***************************************************************************)
(* gameUtils.js: evaluateHand                                              *)
(***************************************************************************)

RANK_TWO == 2

RANK_THREE == 3

RANK_ACE == 14

SUIT_HEARTS == 0

SUIT_SPADES == 3

HIGH_CARD == 1

PAIR == 2

COLOR == 3

SEQUENCE == 4

PURE_SEQUENCE == 5

TRAIL == 6

Ranks == RANK_TWO..RANK_ACE

Suits == SUIT_HEARTS..SUIT_SPADES

NumericCards == [rank : Ranks, suit : Suits]

\* Array.prototype.sort with the comparator (a, b) => b.rank - a.rank: a
\* stable sort, cards of equal rank keep their order.  InsertByRank puts c
\* behind every card of s whose rank is at least c's.
RECURSIVE InsertByRank(_, _)
InsertByRank(s, c) ==
  IF s = <<>> THEN <<c>>
  ELSE IF Head(s).rank >= c.rank THEN <<Head(s)>> \o InsertByRank(Tail(s), c)
  ELSE <<c>> \o s

RECURSIVE SortedPrefix(_, _)
SortedPrefix(cards, n) ==
  IF n = 0 THEN <<>> ELSE InsertByRank(SortedPrefix(cards, n - 1), cards[n])

\* mutant: the copy is not sorted
sortDescending_unsorted(cards) == cards

\* `[...cards].sort((a, b) => b.rank - a.rank)`
sortDescending(cards) == SortedPrefix(cards, Len(cards))

\* mutant: a run that starts at the ace is not taken for a sequence
isSequence_noAceHigh(ranks) ==
  \/ ranks[1] - ranks[2] = 1 /\ ranks[2] - ranks[3] = 1 /\ ranks[1] # RANK_ACE
  \/ ranks[1] = RANK_ACE /\ ranks[2] = RANK_THREE /\ ranks[3] = RANK_TWO

\* mutant: the A-2-3 case is missing
isSequence_noAceLow(ranks) ==
  ranks[1] - ranks[2] = 1 /\ ranks[2] - ranks[3] = 1

\* the two `isSequence = true` conditions, on the descending ranks
isSequence(ranks) ==
  \/ ranks[1] - ranks[2] = 1 /\ ranks[2] - ranks[3] = 1
  \/ ranks[1] = RANK_ACE /\ ranks[2] = RANK_THREE /\ ranks[3] = RANK_TWO

isFlush(suits) == suits[1] = suits[2] /\ suits[2] = suits[3]

isTrail(ranks) == ranks[1] = ranks[2] /\ ranks[2] = ranks[3]

isPair(ranks) ==
  ~isTrail(ranks) /\ (ranks[1] = ranks[2] \/ ranks[2] = ranks[3] \/ ranks[1] = ranks[3])

\* the if / else-if chain that picks handRank
handRankOf(ranks, suits) ==
  IF isTrail(ranks) THEN TRAIL
  ELSE IF isSequence(ranks) /\ isFlush(suits) THEN PURE_SEQUENCE
  ELSE IF isSequence(ranks) THEN SEQUENCE
  ELSE IF isFlush(suits) THEN COLOR
  ELSE IF isPair(ranks) THEN PAIR
  ELSE HIGH_CARD

\* `BigInt(handRank) * 1000000n + BigInt(ranks[0]) * 10000n + ...`
handValueOf(handRank, ranks) ==
  handRank * 1000000 + ranks[1] * 10000 + ranks[2] * 100 + ranks[3]

NoEvaluation ==
  [pc |-> "idle", handRank |-> 0, handValue |-> 0, isSequence |-> FALSE]

\* evaluateHand(cards)
evaluateHand(cards) ==
  IF Len(cards) # 3
    THEN [NoEvaluation EXCEPT !.pc = "threw"]
    ELSE LET sorted == sortDescending(cards)
             ranks == [k \in 1..3 |-> sorted[k].rank]
             suits == [k \in 1..3 |-> sorted[k].suit]
         IN  [pc |-> "returned",
              handRank |-> handRankOf(ranks, suits),
              handValue |-> handValueOf(handRankOf(ranks, suits), ranks),
              isSequence |-> isSequence(ranks)]

\* a hand of another size, for the length check
TwoCards == <<[rank |-> RANK_ACE, suit |-> SUIT_HEARTS], [rank |-> RANK_TWO, suit |-> SUIT_SPADES]>>

Hands == [1..3 -> NumericCards] \cup {<<>>, TwoCards, TwoCards \o TwoCards}

\* evaluateHand(cards) is called and returns
evaluateHandCalled(cards) ==
  /\ evaluation.pc = "idle"
  /\ hand' = cards
  /\ evaluation' = evaluateHand(cards)
  /\ UNCHANGED notHandVars

\* the caller is done with the result
evaluationDropped ==
  /\ evaluation.pc # "idle"
  /\ hand' = <<>>
  /\ evaluation' = NoEvaluation
  /\ UNCHANGED notHandVars

InitHand ==
  /\ hand = <<>>
  /\ evaluation = NoEvaluation

NextHand ==
  \/ evaluation.pc = "idle" /\ \E cards \in Hands : evaluateHandCalled(cards)
  \/ evaluationDropped

\* the ranks of a 3-card hand from high to low, read off the hand itself
HighRank(h) == CHOOSE r \in Ranks : (\E k \in 1..3 : h[k].rank = r) /\ \A k \in 1..3 : h[k].rank <= r

LowRank(h) == CHOOSE r \in Ranks : (\E k \in 1..3 : h[k].rank = r) /\ \A k \in 1..3 : h[k].rank >= r

MidRank(h) == h[1].rank + h[2].rank + h[3].rank - HighRank(h) - LowRank(h)

AceKingQueenOfOneSuit ==
  /\ Len(hand) = 3
  /\ {hand[k].rank : k \in 1..3} = {14, 13, 12}
  /\ \A k \in 1..3 : hand[k].suit = hand[1].suit

\* C24 as stated: Ace-King-Queen of one suit is not classified as a sequence
\* and gets handRank COLOR (3).
C24_AceKingQueenIsColor ==
  (AceKingQueenOfOneSuit /\ evaluation.pc = "returned") =>
    ~evaluation.isSequence /\ evaluation.handRank = 3

\* C24: evaluateHand on Ace-King-Queen of one suit (ranks 14, 13, 12, equal
\* suits, in any order) classifies the hand as a sequence, the ranks stepping
\* down by one twice, and returns handRank PURE_SEQUENCE (5).
C24_AceKingQueenIsPureSequence ==
  (AceKingQueenOfOneSuit /\ evaluation.pc # "idle") =>
    /\ evaluation.pc = "returned"
    /\ evaluation.isSequence
    /\ evaluation.handRank = 5

C24_Witness ==
  /\ hand = <<[rank |-> 14, suit |-> 0], [rank |-> 13, suit |-> 0], [rank |-> 12, suit |-> 0]>>
  /\ evaluation.pc = "returned"
  /\ evaluation.handRank = 5

\* the claim's classification, on the hand as given
ClaimedSequence(h) ==
  \/ HighRank(h) - MidRank(h) = 1 /\ MidRank(h) - LowRank(h) = 1
  \/ <<HighRank(h), MidRank(h), LowRank(h)>> = <<14, 3, 2>>

ClaimedFlush(h) == h[1].suit = h[2].suit /\ h[2].suit = h[3].suit

ClaimedRank(h) ==
  IF Cardinality({h[k].rank : k \in 1..3}) = 1 THEN 6
  ELSE IF ClaimedSequence(h) /\ ClaimedFlush(h) THEN 5
  ELSE IF ClaimedSequence(h) THEN 4
  ELSE IF ClaimedFlush(h) THEN 3
  ELSE IF Cardinality({h[k].rank : k \in 1..3}) = 2 THEN 2
  ELSE 1

\* C25: for every 3-card hand with ranks in 2..14 and suits in 0..3,
\* evaluateHand returns handRank 6 for three equal ranks, else 5 for a
\* sequence of one suit, else 4 for a sequence, else 3 for one suit, else 2
\* for exactly two equal ranks, else 1.
C25_HandRankPrecedence ==
  (Len(hand) = 3 /\ evaluation.pc # "idle") =>
    /\ evaluation.pc = "returned"
    /\ evaluation.handRank = ClaimedRank(hand)

C25_Witness ==
  /\ evaluation.pc = "returned"
  /\ {hand[k].rank : k \in 1..3} = {14, 3, 2}
  /\ hand[1].rank = 3
  /\ ~ClaimedFlush(hand)
  /\ evaluation.handRank = 4

Permutations3 == {p \in [1..3 -> 1..3] : \A a, b \in 1..3 : a # b => p[a] # p[b]}

\* C26: handValue = handRank * 10^6 + r0 * 10^4 + r1 * 10^2 + r2 with
\* r0 >= r1 >= r2 the ranks of the hand, and every ordering of the same
\* three cards gets the same handRank and handValue.
C26_HandValueEncoding ==
  (Len(hand) = 3 /\ evaluation.pc = "returned") =>
    /\ evaluation.handValue =
         evaluation.handRank * 1000000 + HighRank(hand) * 10000
           + MidRank(hand) * 100 + LowRank(hand)
    /\ \A p \in Permutations3 :
         LET other == evaluateHand([k \in 1..3 |-> hand[p[k]]])
         IN  /\ other.handRank = evaluation.handRank
             /\ other.handValue = evaluation.handValue

C26_Witness ==
  /\ hand = <<[rank |-> 5, suit |-> 1], [rank |-> 14, suit |-> 0], [rank |-> 10, suit |-> 2]>>
  /\ evaluation.pc = "returned"
  /\ evaluation.handValue = 1141005

(***************************************************************************)
(* crypto.js: the Merkle tree over the card commitments                    *)
(***************************************************************************)

DECK_SIZE == 52

MERKLE_DEPTH == 6

HAND_SIZE == 3

DOMAIN_CARD_UID == 1

DOMAIN_CARD_COMMITMENT == 2

\* the largest list of leaves handed to buildMerkleTree
MaxLeaves == 128

\* `1 << MERKLE_DEPTH`
RECURSIVE ShiftLeft(_, _)
ShiftLeft(x, n) == IF n = 0 THEN x ELSE ShiftLeft(2 * x, n - 1)

treeSize == ShiftLeft(1, MERKLE_DEPTH)

\* A field element is the tuple <<n>>; `undefined` is the empty tuple.
Fr(n) == <<n>>

Undefined == <<>>

\* pedersenHash(inputs), taken for an ideal hash: the result stands for its
\* inputs and for nothing else.  toFr throws on an input that is undefined.
hashThrows(inputs) == \E k \in 1..Len(inputs) : inputs[k] = Undefined

pedersenHashOf(inputs) == inputs

\* hashCardCommitment(cardUID, nonce)
hashCardCommitment(cardUID, nonce) ==
  pedersenHashOf(<<Fr(DOMAIN_CARD_COMMITMENT), cardUID, nonce>>)

\* hashMerkleNode(left, right)
hashMerkleNode(left, right) == pedersenHashOf(<<left, right>>)

\* array[i] of JavaScript, i counted from 0
At(array, i) == IF i + 1 \in 1..Len(array) THEN array[i + 1] ELSE Undefined

\* `new Array(treeSize).fill(0n)` overwritten by leaves[0 .. leaves.length-1];
\* an assignment behind the end makes the array longer
paddedLeaves(leaves) ==
  LET n == IF Len(leaves) > treeSize THEN Len(leaves) ELSE treeSize
  IN  SubSeq([k \in 1..n |-> IF k <= Len(leaves) THEN leaves[k] ELSE Fr(0)], 1, n)

\* the inner loop `for (i = 0; i < currentLayer.length; i += 2)`
nextLayerOf(currentLayer) ==
  LET n == (Len(currentLayer) + 1) \div 2
  IN  SubSeq([k \in 1..n |->
                hashMerkleNode(At(currentLayer, 2 * (k - 1)),
                               At(currentLayer, 2 * (k - 1) + 1))], 1, n)

layerThrows(currentLayer) ==
  \E k \in 1..((Len(currentLayer) + 1) \div 2) :
     hashThrows(<<At(currentLayer, 2 * (k - 1)), At(currentLayer, 2 * (k - 1) + 1)>>)

\* the outer loop `for (depth = 0; depth < MERKLE_DEPTH; depth++)`:
\* layers grows by one layer per round, a throwing hash ends the call
RECURSIVE growLayers(_, _)
growLayers(layers, depth) ==
  IF depth >= MERKLE_DEPTH THEN [threw |-> FALSE, layers |-> layers]
  ELSE IF layerThrows(layers[Len(layers)]) THEN [threw |-> TRUE, layers |-> layers]
  ELSE growLayers(Append(layers, nextLayerOf(layers[Len(layers)])), depth + 1)

\* buildMerkleTree(leaves)
buildMerkleTree(leaves) ==
  LET grown == growLayers(<<paddedLeaves(leaves)>>, 0)
  IN  IF grown.threw
        THEN [threw |-> TRUE, error |-> "Cannot convert undefined to Fr",
              root |-> Undefined, layers |-> <<>>]
        ELSE [threw |-> FALSE, error |-> "none",
              root |-> At(grown.layers[Len(grown.layers)], 0),
              layers |-> grown.layers]

\* mutant: the sibling is always taken from the right
siblingIdx_alwaysRight(idx) == idx + 1

\* `isRight ? idx - 1 : idx + 1` with isRight = idx & 1
siblingIdx(idx) == IF idx % 2 = 1 THEN idx - 1 ELSE idx + 1

\* `x || 0n`
OrZero(x) == IF x = Undefined \/ x = Fr(0) THEN Fr(0) ELSE x

\* generateMerkleProof(layers, leafIndex): the loop from depth on
RECURSIVE proofFrom(_, _, _)
proofFrom(layers, idx, depth) ==
  IF depth >= MERKLE_DEPTH THEN [path |-> <<>>, indices |-> <<>>]
  ELSE LET rest == proofFrom(layers, idx \div 2, depth + 1)
       IN  [path |-> <<OrZero(At(At(layers, depth), siblingIdx(idx)))>> \o rest.path,
            indices |-> <<idx % 2>> \o rest.indices]

generateMerkleProof(layers, leafIndex) == proofFrom(layers, leafIndex, 0)

\* the lists the callers hand in: n entries, entry k (from 1) being base + k,
\* or all entries equal
ListOf(n, base) == SubSeq([k \in 1..n |-> Fr(base + k)], 1, n)

LeafCounts ==
  {0, 1, 2, HAND_SIZE, DECK_SIZE - 1, DECK_SIZE, treeSize - 1, treeSize,
   treeSize + 1, treeSize + 2, MaxLeaves}

LeafBases == {0, 100}

NoTreeCall ==
  [pc |-> "idle", op |-> "none", uids |-> 0, nonces |-> 0, leaves |-> <<>>,
   hashed |-> 0, error |-> "none", root |-> Undefined, layers |-> <<>>,
   leafIndex |-> 0, path |-> <<>>, indices |-> <<>>]

\* the number of hashMerkleNode calls that building the layers made
nodesHashed(layers) ==
  IF Len(layers) <= 1 THEN 0
  ELSE LET RECURSIVE Sum(_)
           Sum(d) == IF d > Len(layers) THEN 0 ELSE Len(layers[d]) + Sum(d + 1)
       IN  Sum(2)

\* mutant: the length check is missing
lengthsDiffer_never(cardUIDs, nonces) == FALSE

\* `cardUIDs.length !== nonces.length`
lengthsDiffer(cardUIDs, nonces) == Len(cardUIDs) # Len(nonces)

\* buildMerkleTree(leaves) is called and settles
buildMerkleTreeCalled(n, base) ==
  /\ treeCall.pc = "idle"
  /\ LET leaves == ListOf(n, base)
         tree == buildMerkleTree(leaves)
     IN  treeCall' = [NoTreeCall EXCEPT
                        !.pc = IF tree.threw THEN "threw" ELSE "returned",
                        !.op = "buildMerkleTree",
                        !.leaves = leaves,
                        !.hashed = nodesHashed(tree.layers),
                        !.error = tree.error,
                        !.root = tree.root,
                        !.layers = tree.layers]
  /\ UNCHANGED notMerkleVars

\* commitDeck(cardUIDs, nonces) is called and settles
commitDeckCalled(n, m) ==
  /\ treeCall.pc = "idle"
  /\ LET cardUIDs == ListOf(n, 100)
         nonces == ListOf(m, 200)
     IN  IF lengthsDiffer(cardUIDs, nonces)
           THEN treeCall' = [NoTreeCall EXCEPT
                               !.pc = "threw", !.op = "commitDeck",
                               !.uids = n, !.nonces = m,
                               !.error = "cardUIDs and nonces must have same length"]
           ELSE LET commitments ==
                      SubSeq([k \in 1..n |->
                                hashCardCommitment(cardUIDs[k], At(nonces, k - 1))], 1, n)
                    thrown == \E k \in 1..n : hashThrows(<<cardUIDs[k], At(nonces, k - 1)>>)
                    tree == buildMerkleTree(commitments)
                IN  treeCall' =
                      IF thrown
                        THEN [NoTreeCall EXCEPT
                                !.pc = "threw", !.op = "commitDeck",
                                !.uids = n, !.nonces = m, !.hashed = m,
                                !.error = "Cannot convert undefined to Fr"]
                        ELSE [NoTreeCall EXCEPT
                                !.pc = IF tree.threw THEN "threw" ELSE "returned",
                                !.op = "commitDeck",
                                !.uids = n, !.nonces = m,
                                !.leaves = commitments,
                                !.hashed = n + nodesHashed(tree.layers),
                                !.error = tree.error,
                                !.root = tree.root,
                                !.layers = tree.layers]
  /\ UNCHANGED notMerkleVars

\* generateMerkleProof(layers, leafIndex) on the layers of the tree just built
generateMerkleProofCalled(leafIndex) ==
  /\ treeCall.pc = "returned"
  /\ LET proof == generateMerkleProof(treeCall.layers, leafIndex)
     IN  treeCall' = [treeCall EXCEPT
                        !.pc = "proved", !.leafIndex = leafIndex,
                        !.path = proof.path, !.indices = proof.indices]
  /\ UNCHANGED notMerkleVars

\* the caller is done with the tree
treeDropped ==
  /\ treeCall.pc \in {"threw", "returned", "proved"}
  /\ treeCall' = NoTreeCall
  /\ UNCHANGED notMerkleVars

InitMerkle == treeCall = NoTreeCall

NextMerkle ==
  \/ \E n \in LeafCounts, base \in LeafBases : buildMerkleTreeCalled(n, base)
  \/ \E n \in LeafCounts, m \in LeafCounts : commitDeckCalled(n, m)
  \/ \E leafIndex \in 0..(treeSize - 1) : generateMerkleProofCalled(leafIndex)
  \/ treeDropped

\* folding a leaf upward along a proof: hash(sibling, node) when the bit is
\* 1, hash(node, sibling) when it is 0
RECURSIVE FoldUp(_, _, _, _)
FoldUp(node, path, indices, k) ==
  IF k > Len(path) THEN node
  ELSE FoldUp(IF indices[k] = 1 THEN <<path[k], node>> ELSE <<node, path[k]>>,
              path, indices, k + 1)

\* C23: for a tree built from at most 64 leaves and every leaf index in
\* 0..63, generateMerkleProof returns 6 siblings and 6 bits, and folding the
\* (zero-padded) leaf at that index upward along them gives the tree's root.
C23_ProofReconstructsRoot ==
  (treeCall.pc = "proved" /\ Len(treeCall.leaves) <= 64) =>
    /\ Len(treeCall.path) = 6
    /\ Len(treeCall.indices) = 6
    /\ \A k \in 1..6 : treeCall.indices[k] \in {0, 1}
    /\ FoldUp(IF treeCall.leafIndex < Len(treeCall.leaves)
                THEN treeCall.leaves[treeCall.leafIndex + 1] ELSE <<0>>,
              treeCall.path, treeCall.indices, 1) = treeCall.root

C23_Witness ==
  /\ treeCall.pc = "proved"
  /\ treeCall.op = "commitDeck"
  /\ Len(treeCall.leaves) = 52
  /\ treeCall.leafIndex = 37
  /\ treeCall.indices = <<1, 0, 1, 0, 0, 1>>

\* C27: commitDeck called with a number of card UIDs other than the number
\* of nonces throws the length error, having computed no commitment and
\* built no tree.
C27_LengthMismatchFailsFirst ==
  (treeCall.op = "commitDeck" /\ treeCall.uids # treeCall.nonces) =>
    /\ treeCall.pc = "threw"
    /\ treeCall.error = "cardUIDs and nonces must have same length"
    /\ treeCall.hashed = 0
    /\ treeCall.layers = <<>>
    /\ treeCall.root = <<>>

C27_Witness ==
  /\ treeCall.op = "commitDeck"
  /\ treeCall.uids = 52
  /\ treeCall.nonces = 51
  /\ treeCall.pc = "threw"

\* C28: buildMerkleTree, and commitDeck through it, throws when given more
\* than 64 leaves and never returns a root for such a list.
C28_OversizedTreeFails ==
  (treeCall.pc # "idle" /\ (Len(treeCall.leaves) > 64 \/ treeCall.uids > 64)) =>
    /\ treeCall.pc = "threw"
    /\ treeCall.root = <<>>

(***************************************************************************)
(* crypto.js: hashCardUID                                                  *)
(***************************************************************************)

\* the ranks and suits handed to hashCardUID run from 0 to these
MaxRank == 16

MaxSuit == 5

NoCardCall ==
  [pc |-> "idle", rank |-> 0, suit |-> 0, hashes |-> 0, uid |-> Undefined]

\* hashCardUID(rank, suit) is called: it runs straight into
\* pedersenHash([DOMAIN_CARD_UID, BigInt(rank), BigInt(suit)])
hashCardUIDCalled(rank, suit) ==
  /\ cardCall.pc = "idle"
  /\ cardCall' = [NoCardCall EXCEPT !.pc = "pedersenHash", !.rank = rank,
                                    !.suit = suit, !.hashes = 1]
  /\ UNCHANGED notCardVars

\* the hash settles: with the backend's result, or with the error of a
\* backend that could not be initialised
cardHashSettles(ok) ==
  /\ cardCall.pc = "pedersenHash"
  /\ cardCall' =
       IF ok THEN [cardCall EXCEPT
                     !.pc = "returned",
                     !.uid = pedersenHashOf(<<Fr(DOMAIN_CARD_UID), Fr(cardCall.rank),
                                            Fr(cardCall.suit)>>)]
       ELSE [cardCall EXCEPT !.pc = "threw"]
  /\ UNCHANGED notCardVars

cardCallDropped ==
  /\ cardCall.pc \in {"returned", "threw"}
  /\ cardCall' = NoCardCall
  /\ UNCHANGED notCardVars

InitCard == cardCall = NoCardCall

NextCard ==
  \/ \E rank \in 0..MaxRank, suit \in 0..MaxSuit : hashCardUIDCalled(rank, suit)
  \/ \E ok \in BOOLEAN : cardHashSettles(ok)
  \/ cardCallDropped

\* C29: hashCardUID called with a rank outside 2..14 or a suit outside 0..3
\* throws and computes no hash.
C29_OutOfRangeCardRejected ==
  (cardCall.pc # "idle" /\ (cardCall.rank \notin 2..14 \/ cardCall.suit \notin 0..3)) =>
    /\ cardCall.pc = "threw"
    /\ cardCall.hashes = 0

(***************************************************************************)
(* gameUtils.js: the circuit input builders                                *)
(***************************************************************************)

\* the array lengths handed to the builders lie this far around the
\* expected length
LengthSlack == 1

DeckLengths == (DECK_SIZE - LengthSlack)..(DECK_SIZE + LengthSlack)

HandLengths == (HAND_SIZE - LengthSlack)..(HAND_SIZE + LengthSlack)

NoBuilder ==
  [pc |-> "idle", op |-> "none", lengths |-> <<>>, proofs |-> 0, error |-> "none"]

\* buildShuffleInput(canonicalUIDs, shuffledUIDs)
buildShuffleInput(canonical, shuffled) ==
  /\ builder.pc = "idle"
  /\ builder' =
       IF canonical # DECK_SIZE \/ shuffled # DECK_SIZE
         THEN [NoBuilder EXCEPT !.pc = "threw", !.op = "buildShuffleInput",
                                !.lengths = <<canonical, shuffled>>,
                                !.error = "Both decks must have 52 cards"]
         ELSE [NoBuilder EXCEPT !.pc = "returned", !.op = "buildShuffleInput",
                                !.lengths = <<canonical, shuffled>>]
  /\ UNCHANGED notBuilderVars

\* buildDealInput(playerId, merkleRoot, positions, cardUIDs, nonces, merkleLayers)
buildDealInput(positions, cardUIDs, nonces) ==
  /\ builder.pc = "idle"
  /\ builder' =
       IF positions # HAND_SIZE \/ cardUIDs # HAND_SIZE \/ nonces # HAND_SIZE
         THEN [NoBuilder EXCEPT !.pc = "threw", !.op = "buildDealInput",
                                !.lengths = <<positions, cardUIDs, nonces>>,
                                !.error = "Deal input requires exactly 3 cards"]
         ELSE [NoBuilder EXCEPT !.pc = "returned", !.op = "buildDealInput",
                                !.lengths = <<positions, cardUIDs, nonces>>,
                                !.proofs = positions]
  /\ UNCHANGED notBuilderVars

\* buildShowInput(gameId, playerId, merkleRoot, cards, handRank, handValue,
\*                cardUIDs, nonces, positions, merkleLayers)
buildShowInput(cards, cardUIDs, nonces, positions) ==
  /\ builder.pc = "idle"
  /\ builder' =
       IF cards # HAND_SIZE
         THEN [NoBuilder EXCEPT !.pc = "threw", !.op = "buildShowInput",
                                !.lengths = <<cards, cardUIDs, nonces, positions>>,
                                !.error = "Show input requires exactly 3 cards"]
         ELSE [NoBuilder EXCEPT !.pc = "returned", !.op = "buildShowInput",
                                !.lengths = <<cards, cardUIDs, nonces, positions>>,
                                !.proofs = positions]
  /\ UNCHANGED notBuilderVars

builderDropped ==
  /\ builder.pc \in {"returned", "threw"}
  /\ builder' = NoBuilder
  /\ UNCHANGED notBuilderVars

InitBuilder == builder = NoBuilder

NextBuilder ==
  \/ \E a, b \in DeckLengths : buildShuffleInput(a, b)
  \/ \E a, b, c \in HandLengths : buildDealInput(a, b, c)
  \/ \E a, b, c, e \in HandLengths : buildShowInput(a, b, c, e)
  \/ builderDropped

\* C30: a builder called with an array of the wrong length throws, having
\* derived no Merkle proof: buildShuffleInput unless both arrays hold 52
\* entries, buildDealInput and buildShowInput unless each of their arrays
\* holds 3.
C30_WrongLengthsRejected ==
  LET expected == IF builder.op = "buildShuffleInput" THEN 52 ELSE 3
  IN  (builder.pc # "idle" /\ \E k \in 1..Len(builder.lengths) : builder.lengths[k] # expected) =>
        /\ builder.pc = "threw"
        /\ builder.proofs = 0

(***************************************************************************)
(* Further claims about the orchestrator and the aggregator wait           *)
(***************************************************************************)

\* the place of a collaborator call in the fixed order of the layers
LayerOrder(call) ==
  CASE call = "verifyLocally" -> 1
    [] call = "isKurierAvailable" -> 2
    [] call = "submitProofToZkVerify" -> 3
    [] call = "verifyOnChain" -> 4
    [] OTHER -> 0

\* C31: one invocation calls its collaborators in the order local,
\* availability, submission, on-chain, each at most once; the one in flight
\* is the latest called; the aggregator layer starts only with the local
\* record written, and the on-chain call only with the aggregator record
\* written (when that layer is enabled).
C31_LayersRunInOrder ==
  /\ \A a, b \in 1..Len(vlog) : a < b => LayerOrder(vlog[a]) < LayerOrder(vlog[b])
  /\ vpc \in {"verifyLocally", "isKurierAvailable", "submitProofToZkVerify", "verifyOnChain"} =>
       (vlog # <<>> /\ vlog[Len(vlog)] = vpc)
  /\ \A k \in 1..Len(vlog) :
       /\ (vlog[k] \in {"isKurierAvailable", "verifyOnChain"} /\ options.localVerify) =>
            (result.local.present /\ result.local.verified)
       /\ (vlog[k] = "verifyOnChain" /\ options.zkVerify) => result.zkVerify.present
       /\ vlog[k] = "submitProofToZkVerify" =>
            \E h \in 1..Len(vlog) : h < k /\ vlog[h] = "isKurierAvailable"

C31_Witness ==
  /\ vlog = <<"verifyLocally", "isKurierAvailable", "submitProofToZkVerify", "verifyOnChain">>
  /\ vpc = "verifyOnChain"
  /\ result.zkVerify.submitted

\* C32: the result holds a layer's record only if the layer was enabled, a
\* disabled layer's collaborator is never called, the default options run
\* the local layer alone, and with localVerify off the enabled aggregator and
\* on-chain layers run with no local verification.
C32_DisabledLayersUntouched ==
  /\ result.local.present => options.localVerify
  /\ result.zkVerify.present => options.zkVerify
  /\ result.onChain.present => options.onChain
  /\ \A k \in 1..Len(vlog) :
       /\ vlog[k] = "verifyLocally" => options.localVerify
       /\ vlog[k] \in {"isKurierAvailable", "submitProofToZkVerify"} => options.zkVerify
       /\ vlog[k] = "verifyOnChain" => options.onChain
  /\ (options = [localVerify |-> TRUE, zkVerify |-> FALSE, onChain |-> FALSE]
        /\ vpc \notin {"idle", "threw"}) =>
       /\ vlog = <<"verifyLocally">>
       /\ vpc = "returned" => result.local.present
  /\ (~options.localVerify /\ vpc = "returned") =>
       /\ options.zkVerify => result.zkVerify.present
       /\ options.onChain => result.onChain.present

C32_Witness ==
  /\ options = [localVerify |-> FALSE, zkVerify |-> TRUE, onChain |-> TRUE]
  /\ vpc = "returned"
  /\ vlog = <<"isKurierAvailable", "submitProofToZkVerify", "verifyOnChain">>
  /\ ~result.local.present
  /\ result.zkVerify.present /\ result.onChain.present

\* C34: in a build with API key the availability check never reports the
\* aggregator unavailable, whatever the status endpoint does, so an enabled
\* aggregator layer always goes on to the submission: its record is never
\* the 'not configured or unavailable' one.
C34_KeyMeansAvailable ==
  /\ apiKey =>
       /\ \A resp \in StatusResponses : isKurierAvailable(apiKey, resp)
       /\ checkKurierHealth(apiKey, "notOk") = "degraded"
       /\ checkKurierHealth(apiKey, "rejected") = "healthy"
  /\ (apiKey /\ options.zkVerify) =>
       /\ result.zkVerify.error # "zkVerify not configured or unavailable"
       /\ result.zkVerify.present =>
            \E k \in 1..Len(vlog) : vlog[k] = "submitProofToZkVerify"
       /\ (vpc \in {"verifyOnChain", "returned"}
             /\ \E k \in 1..Len(vlog) : vlog[k] = "isKurierAvailable") =>
            \E k \in 1..Len(vlog) : vlog[k] = "submitProofToZkVerify"

C34_Witness ==
  /\ apiKey
  /\ options.zkVerify
  /\ vpc = "returned"
  /\ result.zkVerify.submitted
  /\ result.zkVerify.status = "Queued"

\* C35: the aggregator layer ends with the response to the submission: the
\* record is {submitted: true, jobId, status} with status the optimistic
\* verdict or 'Queued', no status request is ever issued and no wait is
\* started by the orchestrator, and a verdict 'failed' neither clears
\* submitted nor keeps the on-chain layer from running.
C35_SubmitWithoutPolling ==
  /\ wpc = "idle" /\ polls = 0 /\ sleeps = 0
  /\ result.zkVerify.submitted =>
       /\ result.zkVerify.jobId
       /\ result.zkVerify.status \in {"success", "failed", "Queued"}
       /\ result.zkVerify.error = "none"
       /\ vpc \in {"verifyOnChain", "returned"}
       /\ options.onChain =>
            \/ vpc = "verifyOnChain" /\ vlog[Len(vlog)] = "verifyOnChain"
            \/ vpc = "returned" /\ result.onChain.present

C35_Witness ==
  /\ result.zkVerify.submitted
  /\ result.zkVerify.status = "failed"
  /\ vpc = "returned"
  /\ result.onChain.present

\* C36: a status request that fails ends waitForVerification at once with
\* that error: no sleep follows it, no later request is issued, and the
\* attempts that remain are not used.
C36_FailedPollEndsWait ==
  wresult.error = "request" =>
    /\ wpc = "threw"
    /\ wresult.kind = "error"
    /\ polls = attempts + 1
    /\ sleeps = attempts
    /\ attempts < 60

C36_Witness ==
  /\ wresult.error = "request"
  /\ wpc = "threw"
  /\ attempts = 2
  /\ polls = 3

(***************************************************************************)
(* hooks.js: useShuffleProof / useDealProof / useShowProof                 *)
(***************************************************************************)

\* How many generate / verifyLocally calls a behaviour holds.
MaxHookCalls == 3

HookCallIds == 1..MaxHookCalls

\* the three hooks share one body, up to the proof service functions called
ProofHooks == {"useShuffleProof", "useDealProof", "useShowProof"}

\* ProofStatus
IDLE == "idle"

GENERATING == "generating"

GENERATED == "generated"

VERIFYING == "verifying"

VERIFIED == "verified"

FAILED == "failed"

\* initialState(); a proof is named by the generate call that returned it,
\* 0 is null
initialState ==
  [status |-> IDLE, proof |-> 0, error |-> "null", generationMs |-> "null"]

\* `verified` is the proof handed to the verifier by the verifyLocally call
\* that settled last; `sinceReset` holds from a reset() to the next generate
NoHook ==
  [hook |-> "none", state |-> initialState, proofRef |-> 0, verified |-> 0,
   sinceReset |-> FALSE]

\* `proof` is the proof returned or verified by the call; `stale` tells that
\* a generate had failed after that proof was made when its verification began
NoHookCall ==
  [op |-> "none", pc |-> "idle", proof |-> 0, ret |-> "none", stale |-> FALSE]

\* the next call of the hook, in call order
HookCallFree(c) ==
  /\ proofHook.hook # "none"
  /\ hookCalls[c].pc = "idle"
  /\ \A d \in HookCallIds : d < c => hookCalls[d].pc # "idle"

\* the component renders: const [state, setState] = useState(initialState);
\* const proofRef = useRef(null)
useProofHook(h) ==
  /\ proofHook.hook = "none"
  /\ proofHook' = [NoHook EXCEPT !.hook = h]
  /\ UNCHANGED hookCalls
  /\ UNCHANGED notHookVars

\* generate(input), to `await generate*Proof(input)`
generate(c) ==
  /\ HookCallFree(c)
  /\ proofHook' =
       [proofHook EXCEPT
          !.state = [status |-> GENERATING, proof |-> 0, error |-> "null",
                     generationMs |-> "null"],
          !.sinceReset = FALSE]
  /\ hookCalls' = [hookCalls EXCEPT ![c] =
                     [NoHookCall EXCEPT !.op = "generate", !.pc = "awaiting"]]
  /\ UNCHANGED notHookVars

\* generate*Proof settles: proofRef.current = proof and the GENERATED state,
\* or the catch: setState((s) => ({...s, status: FAILED, error: msg})); throw
\* (proofRef.current is left as it is). Neither looks at what happened while
\* the call was waiting.
generateSettles(c, ok) ==
  /\ hookCalls[c].op = "generate"
  /\ hookCalls[c].pc = "awaiting"
  /\ IF ok
       THEN /\ proofHook' =
                 [proofHook EXCEPT
                    !.proofRef = c,
                    !.state = [status |-> GENERATED, proof |-> c,
                               error |-> "null", generationMs |-> "ms"]]
            /\ hookCalls' = [hookCalls EXCEPT ![c] =
                               [@ EXCEPT !.pc = "returned", !.proof = c]]
       ELSE /\ proofHook' =
                 [proofHook EXCEPT
                    !.state = [@ EXCEPT !.status = FAILED,
                                        !.error = "generation failed"]]
            /\ hookCalls' = [hookCalls EXCEPT ![c] = [@ EXCEPT !.pc = "threw"]]
  /\ UNCHANGED notHookVars

\* the proof is one of an earlier generate than a generate that has failed
StaleProof(p) ==
  \E g \in HookCallIds :
    /\ g > p
    /\ hookCalls[g].op = "generate"
    /\ hookCalls[g].pc = "threw"

\* verifyLocally(): `if (!proofRef.current) throw new Error('No proof to
\* verify')`, else to `await verify*Proof(proofRef.current)`
verifyLocallyCalled(c) ==
  /\ HookCallFree(c)
  /\ IF proofHook.proofRef = 0
       THEN /\ hookCalls' = [hookCalls EXCEPT ![c] =
                               [NoHookCall EXCEPT !.op = "verifyLocally",
                                                  !.pc = "threw"]]
            /\ UNCHANGED proofHook
       ELSE /\ proofHook' = [proofHook EXCEPT !.state.status = VERIFYING]
            /\ hookCalls' = [hookCalls EXCEPT ![c] =
                               [NoHookCall EXCEPT !.op = "verifyLocally",
                                                  !.pc = "awaiting",
                                                  !.proof = proofHook.proofRef,
                                                  !.stale = StaleProof(proofHook.proofRef)]]
  /\ UNCHANGED notHookVars

\* verify*Proof settles; it never rejects (verifyProofLocally catches), so
\* the catch of verifyLocally is not reached
verifyLocallySettles(c, verdict) ==
  /\ hookCalls[c].op = "verifyLocally"
  /\ hookCalls[c].pc = "awaiting"
  /\ proofHook' =
       [proofHook EXCEPT
          !.verified = hookCalls[c].proof,
          !.state = IF verdict = "valid"
                      THEN [@ EXCEPT !.status = VERIFIED, !.error = "null"]
                    ELSE [@ EXCEPT !.status = FAILED,
                                   !.error = IF verdict = "error"
                                               THEN "verification error"
                                               ELSE "Verification failed"]]
  /\ hookCalls' = [hookCalls EXCEPT ![c] =
                     [@ EXCEPT !.pc = "returned",
                               !.ret = IF verdict = "valid" THEN "true" ELSE "false"]]
  /\ UNCHANGED notHookVars

\* reset(): proofRef.current = null; setState(initialState())
hookReset ==
  /\ proofHook.hook # "none"
  /\ proofHook' = [proofHook EXCEPT !.proofRef = 0, !.state = initialState,
                                    !.sinceReset = TRUE]
  /\ UNCHANGED hookCalls
  /\ UNCHANGED notHookVars

InitHook ==
  /\ proofHook = NoHook
  /\ hookCalls = [c \in HookCallIds |-> NoHookCall]

NextHook ==
  \/ \E h \in ProofHooks : useProofHook(h)
  \/ \E c \in HookCallIds : generate(c)
  \/ \E c \in HookCallIds, ok \in BOOLEAN : generateSettles(c, ok)
  \/ \E c \in HookCallIds : verifyLocallyCalled(c)
  \/ \E c \in HookCallIds, verdict \in ProofServiceVerdicts :
       verifyLocallySettles(c, verdict)
  \/ hookReset

\* C33: the failures of a hook's verifyLocally all have one shape: no
\* behaviour holds a verifyLocally call that threw together with one that
\* returned false.
C33_OneFailureShape ==
  ~ \E c, d \in HookCallIds :
      /\ hookCalls[c].op = "verifyLocally" /\ hookCalls[c].pc = "threw"
      /\ hookCalls[d].op = "verifyLocally" /\ hookCalls[d].pc = "returned"
      /\ hookCalls[d].ret = "false"

\* C37: whenever the status is VERIFIED the exposed proof is non-null and is
\* the proof that was verified, and no verifyLocally call is handed the
\* proof of an earlier generate once a later generate has failed.
C37_VerifiedMeansExposedProof ==
  /\ proofHook.state.status = VERIFIED =>
       /\ proofHook.state.proof # 0
       /\ proofHook.state.proof = proofHook.verified
  /\ \A c \in HookCallIds : ~hookCalls[c].stale

\* C38: from a reset() to the next generate call the state of the hook is
\* the initial state.
C38_ResetStands ==
  proofHook.sinceReset => proofHook.state = initialState

(***************************************************************************)
(* ZKProvider: readiness of the session                                    *)
(***************************************************************************)

\* How many initialize calls a behaviour holds.
MaxInitializeCalls == 3

InitializeIds == 1..MaxInitializeCalls

\* The state cells of the provider (the proof history is left out),
\* initRef.current, and `rendered`: the isReady of the latest render, which
\* is the one the current `initialize` callback closes over.
NoProvider ==
  [mounted |-> FALSE, autoInit |-> FALSE, isReady |-> FALSE, isLoading |-> FALSE,
   isZkVerifyAvailable |-> FALSE, error |-> "null", canonicalDeck |-> FALSE,
   initRef |-> FALSE, rendered |-> FALSE]

\* an initialize call: where it stands, the loadModules run its preload
\* awaits, the circuits its preload is loading, and the circuits whose load
\* goes on after the preload was rejected
NoInitialize ==
  [pc |-> "idle", waitOn |-> 0, loads |-> {}, late |-> {}, outcome |-> "none"]

InitializeInFlight(i) ==
  zkCalls[i].pc \in {"preloadCircuits", "fetchCircuit", "fetchVk",
                     "generateCanonicalDeck", "isKurierAvailable"}

InitializeFree(i) ==
  /\ zk.mounted
  /\ zkCalls[i].pc = "idle"
  /\ \A j \in InitializeIds : j < i => zkCalls[j].pc # "idle"

\* the catch and the finally of initialize:
\*   setError(err.message || ...); initRef.current = false; setIsLoading(false)
initializeCatch(z) == [z EXCEPT !.error = "initialization failed",
                                !.initRef = FALSE, !.isLoading = FALSE]

\* initialize(), to `await preloadCircuits()`: the early return, else the
\* flags and the synchronous part of the three loadCircuit calls, which is
\* loadModules() called three times (the second and third join the first).
\* z is the provider state the call finds.
initializeBody(i, z) ==
  IF z.initRef \/ z.rendered
    THEN /\ zkCalls' = [zkCalls EXCEPT ![i] =
                          [NoInitialize EXCEPT !.pc = "returned", !.outcome = "skipped"]]
         /\ zk' = z
         /\ UNCHANGED serviceVars
    ELSE /\ zk' = [z EXCEPT !.initRef = TRUE, !.isLoading = TRUE, !.error = "null"]
         /\ \/ /\ loadModulesJoins
               /\ zkCalls' = [zkCalls EXCEPT ![i] =
                                [NoInitialize EXCEPT !.pc = "preloadCircuits",
                                                     !.waitOn = initializationPromise]]
               /\ UNCHANGED <<inits, initializationPromise, crsInterceptorInstalled>>
            \/ /\ loadModulesReturnsAtOnce
               /\ zkCalls' = [zkCalls EXCEPT ![i] =
                                [NoInitialize EXCEPT !.pc = "preloadCircuits"]]
               /\ UNCHANGED <<inits, initializationPromise, crsInterceptorInstalled>>
            \/ /\ loadModulesStarts
               /\ NextInit # 0
               /\ zkCalls' = [zkCalls EXCEPT ![i] =
                                [NoInitialize EXCEPT !.pc = "preloadCircuits",
                                                     !.waitOn = NextInit]]
               /\ inits' = [inits EXCEPT ![NextInit] =
                              [pc |-> "initializeWasm", epoch |-> epoch,
                               wasmRun |-> ~wasmInitialized]]
               /\ initializationPromise' = NextInit
               /\ crsInterceptorInstalled' = TRUE
         /\ UNCHANGED <<Noir, UltraHonkBackend, Barretenberg, bbApi, modulesLoaded,
                        wasmInitialized, circuitCache, calls, circuits, epoch,
                        lastClearClean>>

\* the provider mounts; the effect `if (autoInit) initialize()` runs
mounted(auto) ==
  /\ ~zk.mounted
  /\ IF auto
       THEN initializeBody(1, [zk EXCEPT !.mounted = TRUE, !.autoInit = TRUE])
       ELSE /\ zk' = [zk EXCEPT !.mounted = TRUE]
            /\ UNCHANGED zkCalls
            /\ UNCHANGED serviceVars
  /\ UNCHANGED notProviderVars

\* a consumer calls the `initialize` of the context
initialize(i) ==
  /\ InitializeFree(i)
  /\ initializeBody(i, zk)
  /\ UNCHANGED notProviderVars

\* React renders after isReady changed: `initialize` is made anew with the
\* new isReady, and the effect that depends on it runs again
committed ==
  /\ zk.mounted
  /\ zk.rendered # zk.isReady
  /\ IF zk.autoInit
       THEN \E i \in InitializeIds :
              /\ InitializeFree(i)
              /\ initializeBody(i, [zk EXCEPT !.rendered = zk.isReady])
       ELSE /\ zk' = [zk EXCEPT !.rendered = zk.isReady]
            /\ UNCHANGED zkCalls
            /\ UNCHANGED serviceVars
  /\ UNCHANGED notProviderVars

\* the three loadCircuit calls resume after `await loadModules()`: rethrow a
\* rejection, check Noir/UltraHonkBackend, return what the cache holds, else
\* start the fetch
preloadModulesAwaited(i) ==
  /\ zkCalls[i].pc = "preloadCircuits"
  /\ IF zkCalls[i].waitOn = 0 THEN TRUE ELSE InitSettled(zkCalls[i].waitOn)
  /\ LET missing == {n \in CircuitNames : circuitCache[n] = 0}
         rejected == zkCalls[i].waitOn # 0 /\ inits[zkCalls[i].waitOn].pc = "rejected"
     IN  IF rejected \/ ~Noir \/ ~UltraHonkBackend
           THEN /\ zkCalls' = [zkCalls EXCEPT ![i] =
                                 [@ EXCEPT !.pc = "returned", !.outcome = "failed"]]
                /\ zk' = initializeCatch(zk)
           ELSE IF missing = {}
             THEN /\ zkCalls' = [zkCalls EXCEPT ![i].pc = "generateCanonicalDeck"]
                  /\ UNCHANGED zk
           ELSE /\ zkCalls' = [zkCalls EXCEPT ![i] =
                                 [@ EXCEPT !.pc = "fetchCircuit", !.loads = missing]]
                /\ UNCHANGED zk
  /\ UNCHANGED serviceVars
  /\ UNCHANGED notProviderVars

\* the circuit fetches of the preload settle (the three loads are followed
\* together); `failed` are those whose fetch failed. A failure rejects the
\* preload while the other loads go on; without the classes every load throws.
circuitsFetched(i, failed) ==
  /\ zkCalls[i].pc = "fetchCircuit"
  /\ failed \subseteq zkCalls[i].loads
  /\ IF ~Noir \/ ~UltraHonkBackend
       THEN /\ zkCalls' = [zkCalls EXCEPT ![i] =
                             [@ EXCEPT !.pc = "returned", !.outcome = "failed",
                                       !.loads = {}]]
            /\ zk' = initializeCatch(zk)
       ELSE IF failed # {}
         THEN /\ zkCalls' = [zkCalls EXCEPT ![i] =
                               [@ EXCEPT !.pc = "returned", !.outcome = "failed",
                                         !.loads = {}, !.late = zkCalls[i].loads \ failed]]
              /\ zk' = initializeCatch(zk)
       ELSE /\ zkCalls' = [zkCalls EXCEPT ![i].pc = "fetchVk"]
            /\ UNCHANGED zk
  /\ UNCHANGED serviceVars
  /\ UNCHANGED notProviderVars

\* the key fetches settle: circuitCache.set(...) for each load, the preload
\* resolves and generateCanonicalDeck() is called. A cached circuit is named
\* here by the initialize call that loaded it.
vksFetched(i) ==
  /\ zkCalls[i].pc = "fetchVk"
  /\ circuitCache' = [n \in CircuitNames |->
                        IF n \in zkCalls[i].loads THEN i ELSE circuitCache[n]]
  /\ zkCalls' = [zkCalls EXCEPT ![i] =
                   [@ EXCEPT !.pc = "generateCanonicalDeck", !.loads = {}]]
  /\ UNCHANGED <<zk, moduleVars, inits, calls, circuits, epoch, lastClearClean>>
  /\ UNCHANGED notProviderVars

\* the loads that outlived a rejected preload reach circuitCache.set(...)
lateCircuitsCached(i) ==
  /\ zkCalls[i].late # {}
  /\ circuitCache' = [n \in CircuitNames |->
                        IF n \in zkCalls[i].late THEN i ELSE circuitCache[n]]
  /\ zkCalls' = [zkCalls EXCEPT ![i].late = {}]
  /\ UNCHANGED <<zk, moduleVars, inits, calls, circuits, epoch, lastClearClean>>
  /\ UNCHANGED notProviderVars

\* generateCanonicalDeck() settles: setCanonicalDeck(deck) and
\* isKurierAvailable() is called, or the catch
deckSettles(i, ok) ==
  /\ zkCalls[i].pc = "generateCanonicalDeck"
  /\ IF ok
       THEN /\ zk' = [zk EXCEPT !.canonicalDeck = TRUE]
            /\ zkCalls' = [zkCalls EXCEPT ![i].pc = "isKurierAvailable"]
       ELSE /\ zk' = initializeCatch(zk)
            /\ zkCalls' = [zkCalls EXCEPT ![i] =
                             [@ EXCEPT !.pc = "returned", !.outcome = "failed"]]
  /\ UNCHANGED serviceVars
  /\ UNCHANGED notProviderVars

\* isKurierAvailable() settles (it never rejects):
\* setIsZkVerifyAvailable(zkAvailable); setIsReady(true); setIsLoading(false)
availabilityKnown(i, resp) ==
  /\ zkCalls[i].pc = "isKurierAvailable"
  /\ zk' = [zk EXCEPT !.isZkVerifyAvailable = isKurierAvailable(apiKey, resp),
                      !.isReady = TRUE, !.isLoading = FALSE]
  /\ zkCalls' = [zkCalls EXCEPT ![i] =
                   [@ EXCEPT !.pc = "returned", !.outcome = "ready"]]
  /\ UNCHANGED serviceVars
  /\ UNCHANGED notProviderVars

\* the periodic check of the aggregator, on mount and every two minutes:
\* setIsZkVerifyAvailable(health.status !== 'down')
periodicCheck(resp) ==
  /\ zk.mounted
  /\ apiKey
  /\ zk.isZkVerifyAvailable # (checkKurierHealth(apiKey, resp) # "down")
  /\ zk' = [zk EXCEPT !.isZkVerifyAvailable = (checkKurierHealth(apiKey, resp) # "down")]
  /\ UNCHANGED zkCalls
  /\ UNCHANGED serviceVars
  /\ UNCHANGED notProviderVars

\* reset(): clearCircuitCache(), the setters, initRef.current = false
providerReset ==
  /\ zk.mounted
  /\ clearCircuitCacheBody
  /\ zk' = [zk EXCEPT !.isReady = FALSE, !.isLoading = FALSE,
                      !.isZkVerifyAvailable = FALSE, !.error = "null",
                      !.canonicalDeck = FALSE, !.initRef = FALSE]
  /\ UNCHANGED zkCalls
  /\ UNCHANGED notProviderVars

InitProvider ==
  /\ zk = NoProvider
  /\ zkCalls = [i \in InitializeIds |-> NoInitialize]

\* the steps of a loadModules run, which are the proof service's
moduleRunSteps ==
  \/ \E k \in InitIds, ok \in BOOLEAN : initializeWasmSettles(k, ok)
  \/ \E k \in InitIds, ok \in BOOLEAN : importSettles(k, ok)
  \/ \E k \in InitIds, ok \in BOOLEAN : barretenbergNewSettles(k, ok)

NextProvider ==
  \/ \E auto \in BOOLEAN : mounted(auto)
  \/ \E i \in InitializeIds : initialize(i)
  \/ committed
  \/ \E i \in InitializeIds : preloadModulesAwaited(i)
  \/ \E i \in InitializeIds, failed \in SUBSET CircuitNames : circuitsFetched(i, failed)
  \/ \E i \in InitializeIds : vksFetched(i)
  \/ \E i \in InitializeIds : lateCircuitsCached(i)
  \/ \E i \in InitializeIds, ok \in BOOLEAN : deckSettles(i, ok)
  \/ \E i \in InitializeIds, resp \in StatusResponses : availabilityKnown(i, resp)
  \/ \E resp \in StatusResponses : periodicCheck(resp)
  \/ providerReset

\* C39: initialize is single-flight and retryable: no two initialize calls
\* are in flight together, none is in flight once the session is ready, and
\* while the error of a failed initialization stands isLoading and isReady
\* are false and initRef is clear, so that a later call runs a fresh attempt.
C39_InitializeSingleFlight ==
  /\ \A i, j \in InitializeIds :
       (InitializeInFlight(i) /\ InitializeInFlight(j)) => i = j
  /\ \A i \in InitializeIds : InitializeInFlight(i) => ~zk.isReady
  /\ zk.error # "null" => (~zk.isLoading /\ ~zk.isReady /\ ~zk.initRef)

\* C40: whenever the session reports isReady the proof service is loaded:
\* isZKReady() holds and the three circuits are cached.
C40_ReadyMeansLoaded ==
  zk.isReady => (isZKReady /\ \A n \in CircuitNames : circuitCache[n] # 0)

\* the caller of the wait and the synchronous helpers at rest
IdleHelpers == InitTeardown /\ InitHand /\ InitMerkle /\ InitCard /\ InitBuilder

IdleExtra == IdleHelpers /\ InitHook /\ InitProvider

Init ==
  /\ InitWait /\ InitVerify /\ InitService /\ InitCrypto /\ InitProof
  /\ InitSubmit /\ InitTx /\ InitHealth /\ IdleExtra

Next ==
  \/ NextWait \/ NextVerify \/ NextService \/ NextCrypto \/ NextProof
  \/ NextSubmit \/ NextTx \/ NextHealth
  \/ callerTornDown \/ NextHand \/ NextMerkle \/ NextCard \/ NextBuilder
  \/ NextHook \/ NextProvider

\* The other components at rest.
IdleWait == InitWait

IdleVerify == InitVerify /\ apiKey = TRUE

\* the stand-alone components at rest
IdleLater == InitSubmit /\ InitTx /\ InitHealth /\ IdleExtra

IdleService == InitService /\ InitCrypto /\ InitProof /\ IdleLater

WaitInit == InitWait /\ IdleVerify /\ IdleService

SpecWait == WaitInit /\ [][NextWait]_vars

\* The scheduler's guarantee for a running wait: a pending timer fires and a
\* pending status request settles.
SpecWaitFair == SpecWait /\ WF_vars(NextWait)

VerifyInit == InitVerify /\ IdleWait /\ IdleService

SpecVerify == VerifyInit /\ [][NextVerify]_vars

ServiceInit == IdleService /\ IdleWait /\ IdleVerify

\* the proof service alone
SpecService == ServiceInit /\ [][NextService]_vars

\* the proof service together with the hashing adapter
SpecHandle == ServiceInit /\ [][NextService \/ NextCrypto]_vars

\* a session in which circuits are loaded by proof generation and local
\* verification only and the cache is not cleared
NextProofSession ==
  \/ NextProof
  \/ \E k \in InitIds, ok \in BOOLEAN : initializeWasmSettles(k, ok)
  \/ \E k \in InitIds, ok \in BOOLEAN : importSettles(k, ok)
  \/ \E k \in InitIds, ok \in BOOLEAN : barretenbergNewSettles(k, ok)
  \/ \E c \in CallIds : modulesAwaited(c)
  \/ \E c \in CallIds, ok \in BOOLEAN : circuitFetched(c, ok)
  \/ \E c \in CallIds, found \in BOOLEAN : vkFetched(c, found)

SpecProof == ServiceInit /\ [][NextProofSession]_vars

SubmitInit == InitVerify /\ IdleWait /\ IdleService

\* submitProofToZkVerify alone, in a build with and in one without API key
SpecSubmit == SubmitInit /\ [][NextSubmit]_vars

TxInit == IdleService /\ IdleWait /\ IdleVerify

\* verifyOnChainWithTransaction alone
SpecTx == TxInit /\ [][NextTx]_vars

HealthInit == InitVerify /\ IdleWait /\ IdleService

\* checkKurierHealth alone, in a build with and in one without API key
SpecHealth == HealthInit /\ [][NextHealth]_vars

KeylessInit == InitVerify /\ apiKey = FALSE /\ IdleWait /\ IdleService

\* the orchestrator and the health check in a build without API key
SpecKeyless == KeylessInit /\ [][NextKeyless]_vars

\* a wait whose caller may be torn down
SpecTeardown == WaitInit /\ [][NextTeardown]_vars

\* evaluateHand alone
SpecHand == ServiceInit /\ [][NextHand]_vars

\* commitDeck, buildMerkleTree and generateMerkleProof alone
SpecMerkle == ServiceInit /\ [][NextMerkle]_vars

\* hashCardUID alone
SpecCard == ServiceInit /\ [][NextCard]_vars

\* the circuit input builders alone
SpecBuilder == ServiceInit /\ [][NextBuilder]_vars

\* one proof hook alone
SpecHook == ServiceInit /\ [][NextHook]_vars

\* the provider together with the loadModules runs its preloads start
SpecProvider == ServiceInit /\ [][NextProvider \/ moduleRunSteps]_vars

Spec == Init /\ [][Next]_vars

====
